---- MODULE Spec2Model ----
(***************************************************************************)
(* FinDash: the transaction categorization and budget reconciliation code  *)
(* of utils.py, with the page code of app.py that calls it.                *)
(*                                                                         *)
(* Text is a sequence of one-character strings, so that str.lower(), the   *)
(* `in` operator, startswith and endswith are computed character by        *)
(* character.  Money is an integer number of currency units.               *)
(***************************************************************************)
EXTENDS Integers, Sequences, FiniteSets, TLC

VARIABLES
    pc,               \* "call" before the function runs, "loop" inside its
                      \* loops, "done" once it returned, "raised" if it raised
    transaction,      \* apply_rule: the transaction row
    rule,             \* apply_rule: the rule row
    applies,          \* apply_rule: the returned value (FALSE before the call)
    transactions_df,  \* apply_rules_to_transactions: the transaction rows
    rules_df,         \* apply_rules_to_transactions: the rule rows, by priority
    txn_i,            \* position of the outer loop (for _, txn in ...)
    rule_i,           \* position of the inner loop (for _, rule in ...)
    updates,          \* the list of (transaction_id, category) built so far
    payee,            \* auto_categorize_transaction: its argument
    payee_lower,      \* payee.lower()
    category_i,       \* position of the loop over CATEGORY_KEYWORDS.items()
    returned,         \* the category returned ("" before the return)
    raised,           \* the exception raised ("" if none)
    budgets_df,       \* show_budgets_page: the budget rows of the month
    this_month_df,    \* show_budgets_page: the transactions of the month
    budget_progress,  \* what calculate_budget_progress returned
    shown,            \* per budget row: spent, remaining, percent, bar value
    budget_sheet,     \* Budget_Monthly: the rows below the header row
    rules_sheet,      \* User_Rules: the rows below the header row
    transactions_sheet, \* Transactions: the rows below the header row
    rules_cache,      \* st.cache_data of load_user_rules: empty or one entry
    transactions_cache, \* st.cache_data of load_user_transactions, likewise
    budgets_cache,    \* st.cache_data of load_user_budgets: one entry for
                      \* each month_year asked for, as (month_year, frame)
    users_sheet,      \* Users: the rows below the header row
    user_data_sheet,  \* User_Data: the rows below the header row
    sessions,         \* set_budget running in two sessions: where each is
    last_call,        \* the db_manager call or page handler that ran last
    last_result,      \* what it returned, or what the page reported
    now,              \* datetime.now(), a counter
    fn_args,          \* the arguments of a function of utils.py
    fn_result         \* what it returned, or the exception it raised

matchVars == <<transaction, rule, applies>>
rulesVars == <<transactions_df, rules_df, txn_i, rule_i, updates>>
categorizeVars == <<payee, payee_lower, category_i, returned, raised>>
budgetVars == <<budgets_df, this_month_df, budget_progress, shown>>
accountVars == <<users_sheet, user_data_sheet>>
storeVars == <<budget_sheet, rules_sheet, transactions_sheet, rules_cache,
               transactions_cache, budgets_cache, accountVars, sessions,
               last_call, last_result, now>>
fnVars == <<fn_args, fn_result>>
vars == <<pc, matchVars, rulesVars, categorizeVars, budgetVars, storeVars, fnVars>>

\* what the code of one function leaves alone: the variables of the others
outsideMatch == <<rulesVars, categorizeVars, budgetVars, storeVars, fnVars>>
outsideRules == <<matchVars, categorizeVars, budgetVars, storeVars, fnVars>>
outsideCategorize == <<matchVars, rulesVars, budgetVars, storeVars, fnVars>>
outsideBudget == <<matchVars, rulesVars, categorizeVars, storeVars, fnVars>>
outsideStore == <<pc, matchVars, rulesVars, categorizeVars, budgetVars, fnVars>>
outsideFn == <<matchVars, rulesVars, categorizeVars, budgetVars, storeVars>>

(***************************************************************************)
(* Text                                                                    *)
(***************************************************************************)
UpperChars ==
    <<"A","B","C","D","E","F","G","H","I","J","K","L","M",
      "N","O","P","Q","R","S","T","U","V","W","X","Y","Z">>

LowerChars ==
    <<"a","b","c","d","e","f","g","h","i","j","k","l","m",
      "n","o","p","q","r","s","t","u","v","w","x","y","z">>

OtherChars == { "0","1","2","3","4","5","6","7","8","9", " ", "&", "-", "#" }

Alphabet ==
    { UpperChars[i] : i \in DOMAIN UpperChars }
        \cup { LowerChars[i] : i \in DOMAIN LowerChars } \cup OtherChars

\* str.lower() on one character: a capital letter becomes its small letter,
\* every other character stays
CharLower ==
    [ c \in Alphabet |->
        IF \E i \in DOMAIN UpperChars : UpperChars[i] = c
        THEN LowerChars[CHOOSE i \in DOMAIN UpperChars : UpperChars[i] = c]
        ELSE c ]

\* str.lower()
Lower(s) == [i \in 1..Len(s) |-> CharLower[s[i]]]

\* needle in hay
Contains(hay, needle) ==
    \E i \in 1..(Len(hay) - Len(needle) + 1) :
        SubSeq(hay, i, i + Len(needle) - 1) = needle

\* s.startswith(prefix)
StartsWith(s, prefix) ==
    /\ Len(prefix) <= Len(s)
    /\ SubSeq(s, 1, Len(prefix)) = prefix

\* s.endswith(suffix)
EndsWith(s, suffix) ==
    /\ Len(suffix) <= Len(s)
    /\ SubSeq(s, Len(s) - Len(suffix) + 1, Len(s)) = suffix

Digits == <<"0","1","2","3","4","5","6","7","8","9">>

RECURSIVE NatToStr(_)
NatToStr(n) ==
    IF n < 10 THEN <<Digits[n + 1]>>
    ELSE NatToStr(n \div 10) \o <<Digits[(n % 10) + 1]>>

\* str(n) of an integer
IntToStr(n) == IF n < 0 THEN <<"-">> \o NatToStr(0 - n) ELSE NatToStr(n)

(***************************************************************************)
(* apply_rule                                                              *)
(***************************************************************************)
\* transaction.get(field, ''), then str(): a text cell as it is, a number
\* by its decimal digits, a column the row does not have as ''
FieldText(txn, field) ==
    IF field = "payee" THEN txn.payee
    ELSE IF field = "amount" THEN IntToStr(txn.amount)
    ELSE <<>>

\* apply_rule comparing the rule value as typed, without lower-casing it
apply_rule_RawValue(txn, r) ==
    LET field_value == Lower(FieldText(txn, r.rule_field))
        rule_value  == r.rule_value
        condition   == r.rule_condition
    IN  IF condition = "contains" THEN Contains(field_value, rule_value)
        ELSE IF condition = "equals" THEN field_value = rule_value
        ELSE IF condition = "starts_with" THEN StartsWith(field_value, rule_value)
        ELSE IF condition = "ends_with" THEN EndsWith(field_value, rule_value)
        ELSE FALSE

apply_rule(txn, r) ==
    LET field_value == Lower(FieldText(txn, r.rule_field))
        rule_value  == Lower(r.rule_value)
        condition   == r.rule_condition
    IN  IF condition = "contains" THEN Contains(field_value, rule_value)
        ELSE IF condition = "equals" THEN field_value = rule_value
        ELSE IF condition = "starts_with" THEN StartsWith(field_value, rule_value)
        ELSE IF condition = "ends_with" THEN EndsWith(field_value, rule_value)
        ELSE FALSE

(***************************************************************************)
(* Inputs of the rule engine                                               *)
(***************************************************************************)
MatchPayees ==
    { <<>>, <<"a","m">>, <<"A","M","z">>, <<"z","A","m">>,
      <<"z","a","m","z">>, <<"5">> }

MatchAmounts == { -15, -5, 5, 50 }

MatchValues ==
    { <<>>, <<"a","m">>, <<"A","M">>, <<"Z">>, <<"-","5">>, <<"5">> }

\* "notes" stands for a column the transaction rows do not carry
RuleFields == { "payee", "amount", "notes" }

\* the four conditions of the rule form, and one the code does not know
RuleConditions == { "contains", "equals", "starts_with", "ends_with", "regex" }

MatchTransactions ==
    [ transaction_id : {1}, payee : MatchPayees, amount : MatchAmounts,
      category : {"Uncategorized"} ]

MatchRules ==
    [ rule_field : RuleFields, rule_condition : RuleConditions,
      rule_value : MatchValues, rule_category : {"Shopping"}, priority : {1} ]

NoRow == [ transaction_id |-> 0 ]

MatchIdle == transaction = NoRow /\ rule = NoRow /\ applies = FALSE

CategorizeIdle ==
    /\ payee = [ kind |-> "None" ]
    /\ payee_lower = <<>>
    /\ category_i = 0
    /\ returned = ""
    /\ raised = ""

BudgetIdle ==
    /\ budgets_df = <<>>
    /\ this_month_df = <<>>
    /\ budget_progress = <<>>
    /\ shown = <<>>

RulesIdle ==
    /\ transactions_df = <<>>
    /\ rules_df = <<>>
    /\ txn_i = 0
    /\ rule_i = 0
    /\ updates = <<>>

NoCall == [ op |-> "none" ]

StoreIdle ==
    /\ budget_sheet = <<>>
    /\ rules_sheet = <<>>
    /\ transactions_sheet = <<>>
    /\ rules_cache = <<>>
    /\ transactions_cache = <<>>
    /\ budgets_cache = <<>>
    /\ users_sheet = <<>>
    /\ user_data_sheet = <<>>
    /\ sessions = <<>>
    /\ last_call = NoCall
    /\ last_result = NoCall
    /\ now = 0

FnIdle ==
    /\ fn_args = NoCall
    /\ fn_result = NoCall

(***************************************************************************)
(* One call of apply_rule on one transaction and one rule                  *)
(***************************************************************************)
InitMatch ==
    /\ transaction \in MatchTransactions
    /\ rule \in MatchRules
    /\ applies = FALSE
    /\ pc = "call"
    /\ RulesIdle
    /\ CategorizeIdle
    /\ BudgetIdle
    /\ StoreIdle
    /\ FnIdle

CallApplyRule ==
    /\ pc = "call"
    /\ applies' = apply_rule(transaction, rule)
    /\ pc' = "done"
    /\ UNCHANGED <<transaction, rule, outsideMatch>>

NextMatch == CallApplyRule

SpecMatch == InitMatch /\ [][NextMatch]_vars

(***************************************************************************)
(* apply_rules_to_transactions, one step of its two loops at a time        *)
(***************************************************************************)
MaxTxns == 2
MaxRules == 2

LoopPayees == { <<"A","M","Z">>, <<"a","m">> }
LoopCategories == { "Uncategorized", "Shopping" }
LoopRuleFields == { "payee" }
LoopRuleConditions == { "contains", "equals" }
LoopRuleCategories == { "Shopping", "Other" }
Priorities == { 1, 2 }

\* the rows are listed newest first, so the ids do not follow the positions
TransactionIdAt(i, n) == n + 1 - i

LoopTransactions(n) ==
    { t \in [ 1..n -> [ transaction_id : 1..n, payee : LoopPayees,
                        amount : {-5}, category : LoopCategories ] ] :
        \A i \in 1..n : t[i].transaction_id = TransactionIdAt(i, n) }

\* load_user_rules hands the rules over sorted by priority, ascending
IsSortedByPriority(rs) ==
    \A i \in 1..Len(rs), j \in 1..Len(rs) :
        i < j => rs[i].priority <= rs[j].priority

LoopRules(n) ==
    { rs \in [ 1..n -> [ rule_field : LoopRuleFields,
                         rule_condition : LoopRuleConditions,
                         rule_value : { <<"a","m">> },
                         rule_category : LoopRuleCategories,
                         priority : Priorities ] ] :
        IsSortedByPriority(rs) }

InitRules ==
    /\ \E n \in 0..MaxTxns : transactions_df \in LoopTransactions(n)
    /\ \E n \in 0..MaxRules : rules_df \in LoopRules(n)
    /\ txn_i = 1
    /\ rule_i = 1
    /\ updates = <<>>
    /\ pc = "loop"
    /\ MatchIdle
    /\ CategorizeIdle
    /\ BudgetIdle
    /\ StoreIdle
    /\ FnIdle

InLoops ==
    /\ pc = "loop"
    /\ txn_i <= Len(transactions_df)
    /\ rule_i <= Len(rules_df)

\* the rule matches but the scan of the rules goes on (no break)
RuleMatches_NoBreak ==
    /\ InLoops
    /\ apply_rule(transactions_df[txn_i], rules_df[rule_i])
    /\ updates' =
          IF transactions_df[txn_i].category # rules_df[rule_i].rule_category
          THEN Append(updates, << transactions_df[txn_i].transaction_id,
                                  rules_df[rule_i].rule_category >>)
          ELSE updates
    /\ rule_i' = rule_i + 1
    /\ UNCHANGED <<transactions_df, rules_df, txn_i, pc, outsideRules>>

\* the update is put at the front of the list instead of its end
RuleMatches_Prepend ==
    /\ InLoops
    /\ apply_rule(transactions_df[txn_i], rules_df[rule_i])
    /\ updates' =
          IF transactions_df[txn_i].category # rules_df[rule_i].rule_category
          THEN << << transactions_df[txn_i].transaction_id,
                     rules_df[rule_i].rule_category >> >> \o updates
          ELSE updates
    /\ txn_i' = txn_i + 1
    /\ rule_i' = 1
    /\ UNCHANGED <<transactions_df, rules_df, pc, outsideRules>>

\* the update is appended whether or not the category changes
RuleMatches_AlwaysEmit ==
    /\ InLoops
    /\ apply_rule(transactions_df[txn_i], rules_df[rule_i])
    /\ updates' = Append(updates, << transactions_df[txn_i].transaction_id,
                                     rules_df[rule_i].rule_category >>)
    /\ txn_i' = txn_i + 1
    /\ rule_i' = 1
    /\ UNCHANGED <<transactions_df, rules_df, pc, outsideRules>>

\* if apply_rule(txn, rule): append when the category changes, then break
RuleMatches ==
    /\ InLoops
    /\ apply_rule(transactions_df[txn_i], rules_df[rule_i])
    /\ updates' =
          IF transactions_df[txn_i].category # rules_df[rule_i].rule_category
          THEN Append(updates, << transactions_df[txn_i].transaction_id,
                                  rules_df[rule_i].rule_category >>)
          ELSE updates
    /\ txn_i' = txn_i + 1
    /\ rule_i' = 1
    /\ UNCHANGED <<transactions_df, rules_df, pc, outsideRules>>

\* apply_rule(txn, rule) is False: on to the next rule
RuleDoesNotMatch ==
    /\ InLoops
    /\ ~apply_rule(transactions_df[txn_i], rules_df[rule_i])
    /\ rule_i' = rule_i + 1
    /\ UNCHANGED <<transactions_df, rules_df, txn_i, updates, pc, outsideRules>>

\* the inner loop ran out of rules: on to the next transaction
RulesExhausted ==
    /\ pc = "loop"
    /\ txn_i <= Len(transactions_df)
    /\ rule_i > Len(rules_df)
    /\ txn_i' = txn_i + 1
    /\ rule_i' = 1
    /\ UNCHANGED <<transactions_df, rules_df, updates, pc, outsideRules>>

\* the outer loop ran out of transactions: return updates
ReturnUpdates ==
    /\ pc = "loop"
    /\ txn_i > Len(transactions_df)
    /\ pc' = "done"
    /\ UNCHANGED <<transactions_df, rules_df, txn_i, rule_i, updates, outsideRules>>

NextRules ==
    \/ RuleMatches
    \/ RuleDoesNotMatch
    \/ RulesExhausted
    \/ ReturnUpdates

SpecRules == InitRules /\ [][NextRules]_vars

(***************************************************************************)
(* C1, C2, C3: the updates against the first matching rule                 *)
(***************************************************************************)
MatchingRules(txn) ==
    { j \in 1..Len(rules_df) : apply_rule(txn, rules_df[j]) }

\* the matching rule that comes before every other matching rule
IsFirstMatch(txn, j) ==
    LET matching == MatchingRules(txn)
    IN  j \in matching /\ \A k \in matching : j <= k

\* the position in transactions_df of the row an update names
PositionsOf(id) ==
    { i \in 1..Len(transactions_df) : transactions_df[i].transaction_id = id }

UpdatesFor(i) ==
    { k \in 1..Len(updates) :
        updates[k][1] = transactions_df[i].transaction_id }

\* C1: every emitted update carries the rule_category of the first rule of
\* the list that matches its transaction, never that of a later matching rule.
C1_FirstMatchCategory ==
    \A k \in 1..Len(updates) :
        \A i \in PositionsOf(updates[k][1]) :
            \E j \in 1..Len(rules_df) :
                /\ IsFirstMatch(transactions_df[i], j)
                /\ updates[k][2] = rules_df[j].rule_category

\* an update was emitted while a later rule with another category matches too
C1_Witness ==
    /\ pc = "done"
    /\ \E k \in 1..Len(updates), i \in 1..Len(transactions_df) :
          /\ k \in UpdatesFor(i)
          /\ \E j \in MatchingRules(transactions_df[i]) :
                /\ ~IsFirstMatch(transactions_df[i], j)
                /\ rules_df[j].rule_category # updates[k][2]
                /\ rules_df[j].rule_category # transactions_df[i].category

\* C2: at most one update per transaction, and the updates are in the order
\* of their transactions in the input.
C2_OnePerTransactionInOrder ==
    /\ \A i \in 1..Len(transactions_df) : Cardinality(UpdatesFor(i)) <= 1
    /\ \A k \in 1..Len(updates) : PositionsOf(updates[k][1]) # {}
    /\ \A k1 \in 1..Len(updates), k2 \in 1..Len(updates) :
          k1 < k2 =>
            \A i1 \in PositionsOf(updates[k1][1]), i2 \in PositionsOf(updates[k2][1]) :
                i1 < i2

\* two transactions were updated, each matched by two rules
C2_Witness ==
    /\ pc = "done"
    /\ Len(updates) = 2
    /\ \A i \in 1..Len(transactions_df) :
          Cardinality(MatchingRules(transactions_df[i])) = 2

\* C3: no update for a transaction whose first matching rule carries the
\* category the transaction already has, nor for one that no rule matches.
C3_NoRedundantUpdate ==
    \A i \in 1..Len(transactions_df) :
        ( \/ MatchingRules(transactions_df[i]) = {}
          \/ \E j \in 1..Len(rules_df) :
                /\ IsFirstMatch(transactions_df[i], j)
                /\ rules_df[j].rule_category = transactions_df[i].category )
        => UpdatesFor(i) = {}

\* the run is over; one transaction kept its category although a later rule
\* with another category matches it, and another one is matched by no rule
C3_Witness ==
    /\ pc = "done"
    /\ \E i \in 1..Len(transactions_df), j \in 1..Len(rules_df), l \in 1..Len(rules_df) :
          /\ IsFirstMatch(transactions_df[i], j)
          /\ rules_df[j].rule_category = transactions_df[i].category
          /\ l \in MatchingRules(transactions_df[i])
          /\ rules_df[l].rule_category # transactions_df[i].category
          /\ UpdatesFor(i) = {}
    /\ \E i \in 1..Len(transactions_df) :
          /\ MatchingRules(transactions_df[i]) = {}
          /\ UpdatesFor(i) = {}

(***************************************************************************)
(* C7: what each condition means, stated by splitting the field text       *)
(***************************************************************************)
\* f = before \o v \o after for some texts before and after
IsInfix(f, v) ==
    \E i \in 0..Len(f), j \in 0..Len(f) :
        /\ i + Len(v) + j = Len(f)
        /\ SubSeq(f, 1, i) \o v \o SubSeq(f, Len(f) - j + 1, Len(f)) = f

\* f = v \o after for some text after
IsPrefix(f, v) ==
    \E j \in 0..Len(f) : v \o SubSeq(f, Len(f) - j + 1, Len(f)) = f

\* f = before \o v for some text before
IsSuffix(f, v) ==
    \E i \in 0..Len(f) : SubSeq(f, 1, i) \o v = f

RuleReference(txn, r) ==
    LET f == Lower(FieldText(txn, r.rule_field))
        v == Lower(r.rule_value)
    IN  CASE r.rule_condition = "contains"    -> IsInfix(f, v)
          [] r.rule_condition = "equals"      -> f = v
          [] r.rule_condition = "starts_with" -> IsPrefix(f, v)
          [] r.rule_condition = "ends_with"   -> IsSuffix(f, v)
          [] OTHER                            -> FALSE

\* C7: apply_rule returns the reference predicate of the rule's condition on
\* the lower-cased field text and the lower-cased rule value, and False for
\* a condition other than contains, equals, starts_with, ends_with.
C7_ApplyRuleIsReference ==
    pc = "done" => applies = RuleReference(transaction, rule)

\* a match that exists only because both texts are lower-cased
C7_Witness ==
    /\ pc = "done"
    /\ applies
    /\ rule.rule_condition = "contains"
    /\ rule.rule_value = <<"A","M">>
    /\ transaction.payee = <<"z","a","m","z">>

(***************************************************************************)
(* config.CATEGORY_KEYWORDS, in the order the dictionary is written        *)
(***************************************************************************)
CATEGORY_KEYWORDS ==
    <<
      [ category |-> "Income",
        keywords |-> <<
          <<"s","a","l","a","r","y">>,
          <<"p","a","y","c","h","e","c","k">>,
          <<"d","e","p","o","s","i","t">>,
          <<"i","n","c","o","m","e">>,
          <<"p","a","y","m","e","n","t"," ","r","e","c","e","i","v","e","d">>
        >> ],
      [ category |-> "Food & Dining",
        keywords |-> <<
          <<"r","e","s","t","a","u","r","a","n","t">>,
          <<"c","a","f","e">>,
          <<"s","t","a","r","b","u","c","k","s">>,
          <<"m","c","d","o","n","a","l","d">>,
          <<"c","h","i","p","o","t","l","e">>,
          <<"p","i","z","z","a">>,
          <<"u","b","e","r"," ","e","a","t","s">>,
          <<"d","o","o","r","d","a","s","h">>,
          <<"g","r","u","b","h","u","b">>
        >> ],
      [ category |-> "Groceries",
        keywords |-> <<
          <<"w","h","o","l","e"," ","f","o","o","d","s">>,
          <<"t","r","a","d","e","r"," ","j","o","e">>,
          <<"s","a","f","e","w","a","y">>,
          <<"k","r","o","g","e","r">>,
          <<"w","a","l","m","a","r","t">>,
          <<"t","a","r","g","e","t">>,
          <<"g","r","o","c","e","r","y">>,
          <<"m","a","r","k","e","t">>
        >> ],
      [ category |-> "Transportation",
        keywords |-> <<
          <<"u","b","e","r">>,
          <<"l","y","f","t">>,
          <<"t","a","x","i">>,
          <<"t","r","a","n","s","i","t">>,
          <<"m","e","t","r","o">>,
          <<"b","u","s">>,
          <<"t","r","a","i","n">>,
          <<"p","a","r","k","i","n","g">>
        >> ],
      [ category |-> "Gas & Fuel",
        keywords |-> <<
          <<"s","h","e","l","l">>,
          <<"c","h","e","v","r","o","n">>,
          <<"e","x","x","o","n">>,
          <<"m","o","b","i","l">>,
          <<"b","p">>,
          <<"g","a","s">>,
          <<"f","u","e","l">>
        >> ],
      [ category |-> "Shopping",
        keywords |-> <<
          <<"a","m","a","z","o","n">>,
          <<"e","b","a","y">>,
          <<"e","t","s","y">>,
          <<"t","a","r","g","e","t">>,
          <<"w","a","l","m","a","r","t">>,
          <<"c","o","s","t","c","o">>,
          <<"b","e","s","t"," ","b","u","y">>
        >> ],
      [ category |-> "Entertainment",
        keywords |-> <<
          <<"n","e","t","f","l","i","x">>,
          <<"s","p","o","t","i","f","y">>,
          <<"h","u","l","u">>,
          <<"d","i","s","n","e","y">>,
          <<"m","o","v","i","e">>,
          <<"t","h","e","a","t","e","r">>,
          <<"s","t","e","a","m">>,
          <<"p","l","a","y","s","t","a","t","i","o","n">>
        >> ],
      [ category |-> "Bills & Utilities",
        keywords |-> <<
          <<"e","l","e","c","t","r","i","c">>,
          <<"w","a","t","e","r">>,
          <<"i","n","t","e","r","n","e","t">>,
          <<"p","h","o","n","e">>,
          <<"v","e","r","i","z","o","n">>,
          <<"a","t","&","t">>,
          <<"c","o","m","c","a","s","t">>,
          <<"u","t","i","l","i","t","y">>
        >> ],
      [ category |-> "Healthcare",
        keywords |-> <<
          <<"p","h","a","r","m","a","c","y">>,
          <<"d","o","c","t","o","r">>,
          <<"h","o","s","p","i","t","a","l">>,
          <<"m","e","d","i","c","a","l">>,
          <<"c","v","s">>,
          <<"w","a","l","g","r","e","e","n","s">>,
          <<"h","e","a","l","t","h">>
        >> ],
      [ category |-> "Travel",
        keywords |-> <<
          <<"a","i","r","l","i","n","e">>,
          <<"h","o","t","e","l">>,
          <<"a","i","r","b","n","b">>,
          <<"b","o","o","k","i","n","g">>,
          <<"e","x","p","e","d","i","a">>,
          <<"f","l","i","g","h","t">>
        >> ],
      [ category |-> "Personal Care",
        keywords |-> <<
          <<"s","a","l","o","n">>,
          <<"s","p","a">>,
          <<"g","y","m">>,
          <<"f","i","t","n","e","s","s">>,
          <<"h","a","i","r","c","u","t">>
        >> ],
      [ category |-> "Transfer",
        keywords |-> <<
          <<"t","r","a","n","s","f","e","r">>,
          <<"v","e","n","m","o">>,
          <<"p","a","y","p","a","l">>,
          <<"z","e","l","l","e">>,
          <<"c","a","s","h"," ","a","p","p">>
        >> ]
    >>

(***************************************************************************)
(* auto_categorize_transaction, one step of its outer loop at a time       *)
(***************************************************************************)
\* bool(payee): None and '' are false, a not-a-number float is true
Truthy(p) ==
    IF p.kind = "None" THEN FALSE
    ELSE IF p.kind = "str" THEN p.text # <<>>
    ELSE TRUE

\* the inner loop, with the keyword looked for at the start of the text only
AnyKeywordIn_AtStart(entry, text) ==
    \E k \in 1..Len(entry.keywords) :
        StartsWith(text, Lower(entry.keywords[k]))

\* the inner loop: some keyword of the category, lower-cased, is in the text
AnyKeywordIn(entry, text) ==
    \E k \in 1..Len(entry.keywords) :
        Contains(text, Lower(entry.keywords[k]))

\* if not payee: return "Uncategorized"
ReturnForNoPayee ==
    /\ pc = "call"
    /\ ~Truthy(payee)
    /\ returned' = "Uncategorized"
    /\ pc' = "done"
    /\ UNCHANGED <<payee, payee_lower, category_i, raised, outsideCategorize>>

\* payee_lower = payee.lower(), on a str
LowerPayee ==
    /\ pc = "call"
    /\ Truthy(payee)
    /\ payee.kind = "str"
    /\ payee_lower' = Lower(payee.text)
    /\ category_i' = 1
    /\ pc' = "loop"
    /\ UNCHANGED <<payee, returned, raised, outsideCategorize>>

\* payee.lower() on a float: 'float' object has no attribute 'lower'
LowerRaises ==
    /\ pc = "call"
    /\ Truthy(payee)
    /\ payee.kind # "str"
    /\ raised' = "AttributeError"
    /\ pc' = "raised"
    /\ UNCHANGED <<payee, payee_lower, category_i, returned, outsideCategorize>>

\* the category is noted but the loop goes on: the last match would win
CategoryMatches_NoReturn ==
    /\ pc = "loop"
    /\ category_i \in 1..Len(CATEGORY_KEYWORDS)
    /\ AnyKeywordIn(CATEGORY_KEYWORDS[category_i], payee_lower)
    /\ returned' = CATEGORY_KEYWORDS[category_i].category
    /\ category_i' = category_i + 1
    /\ UNCHANGED <<pc, payee, payee_lower, raised, outsideCategorize>>

\* a keyword of the category is in payee_lower: return category
CategoryMatches ==
    /\ pc = "loop"
    /\ category_i \in 1..Len(CATEGORY_KEYWORDS)
    /\ AnyKeywordIn(CATEGORY_KEYWORDS[category_i], payee_lower)
    /\ returned' = CATEGORY_KEYWORDS[category_i].category
    /\ pc' = "done"
    /\ UNCHANGED <<payee, payee_lower, category_i, raised, outsideCategorize>>

\* no keyword of the category is in payee_lower: on to the next category
CategoryDoesNotMatch ==
    /\ pc = "loop"
    /\ category_i \in 1..Len(CATEGORY_KEYWORDS)
    /\ ~AnyKeywordIn(CATEGORY_KEYWORDS[category_i], payee_lower)
    /\ category_i' = category_i + 1
    /\ UNCHANGED <<pc, payee, payee_lower, returned, raised, outsideCategorize>>

\* the loop ran out of categories: return "Uncategorized"
ReturnUncategorized ==
    /\ pc = "loop"
    /\ category_i > Len(CATEGORY_KEYWORDS)
    /\ returned' = "Uncategorized"
    /\ pc' = "done"
    /\ UNCHANGED <<payee, payee_lower, category_i, raised, outsideCategorize>>

(***************************************************************************)
(* The payees: a keyword or none, text around it, as written or in capitals *)
(***************************************************************************)
AllKeywords ==
    UNION { { CATEGORY_KEYWORDS[c].keywords[k] :
                k \in 1..Len(CATEGORY_KEYWORDS[c].keywords) } :
            c \in 1..Len(CATEGORY_KEYWORDS) }

CharUpper ==
    [ c \in Alphabet |->
        IF \E i \in DOMAIN LowerChars : LowerChars[i] = c
        THEN UpperChars[CHOOSE i \in DOMAIN LowerChars : LowerChars[i] = c]
        ELSE c ]

Upper(s) == [i \in 1..Len(s) |-> CharUpper[s[i]]]

PayeeStems == AllKeywords \cup { <<>>, <<"r","e","n","t">>, <<"u","b","e","r">> }

PayeeTails ==
    { <<>>, <<" ","#","1","2","3">>, <<" ","g","a","s">>,
      <<" ","t","a","r","g","e","t">>, <<" ","e","a","t","s">> }

PayeeTexts ==
    LET written == { stem \o tail : stem \in PayeeStems, tail \in PayeeTails }
    IN  written \cup { Upper(t) : t \in written }

\* a text cell, a missing value (None), or the not-a-number float that
\* pandas.read_csv gives for a blank cell
PayeeValues ==
    [ kind : {"str"}, text : PayeeTexts ] \cup { [ kind |-> "None" ], [ kind |-> "nan" ] }

InitCategorize ==
    /\ payee \in PayeeValues
    /\ payee_lower = <<>>
    /\ category_i = 0
    /\ returned = ""
    /\ raised = ""
    /\ pc = "call"
    /\ MatchIdle
    /\ RulesIdle
    /\ BudgetIdle
    /\ StoreIdle
    /\ FnIdle

NextCategorize ==
    \/ ReturnForNoPayee
    \/ LowerPayee
    \/ LowerRaises
    \/ CategoryMatches
    \/ CategoryDoesNotMatch
    \/ ReturnUncategorized

SpecCategorize == InitCategorize /\ [][NextCategorize]_vars

(***************************************************************************)
(* C4, C5, C6: the category returned for a payee                           *)
(***************************************************************************)
\* keyword k of category c occurs in the text, whatever the case of either
KeywordOccurs(c, k, text) ==
    IsInfix(Lower(text), Lower(CATEGORY_KEYWORDS[c].keywords[k]))

\* the categories of the table with a keyword that occurs in the text
CategoriesOccurring(text) ==
    { c \in 1..Len(CATEGORY_KEYWORDS) :
        \E k \in 1..Len(CATEGORY_KEYWORDS[c].keywords) : KeywordOccurs(c, k, text) }

\* C4: for a text payee, the category returned is the first one of the
\* table, in the order it is written, with a keyword occurring in the payee
\* (case-insensitively), whatever the other categories that match.
C4_FirstCategoryInTableOrder ==
    (pc = "done" /\ payee.kind = "str") =>
        LET occurring == CategoriesOccurring(payee.text)
        IN  \A c \in occurring :
                (\A d \in occurring : c <= d)
                    => returned = CATEGORY_KEYWORDS[c].category

\* "AMAZON GAS": the shorter keyword further right wins, its category is
\* written before the category of "amazon"
C4_Witness ==
    /\ pc = "done"
    /\ payee.kind = "str"
    /\ payee.text = <<"A","M","A","Z","O","N"," ","G","A","S">>
    /\ returned = "Gas & Fuel"
    /\ Cardinality(CategoriesOccurring(payee.text)) = 2

\* C5 as claimed: whenever a keyword listed under category c occurs in the
\* payee, the category returned is c.
C5_KeywordCategoryReturned ==
    (pc = "done" /\ payee.kind = "str") =>
        \A c \in 1..Len(CATEGORY_KEYWORDS) :
            \A k \in 1..Len(CATEGORY_KEYWORDS[c].keywords) :
                KeywordOccurs(c, k, payee.text)
                    => returned = CATEGORY_KEYWORDS[c].category

\* C5 as amended: whenever a keyword listed under category c occurs in the
\* payee and no keyword of a category written before c occurs in it, the
\* category returned is c.
C5_KeywordCategoryUnlessEarlier ==
    (pc = "done" /\ payee.kind = "str") =>
        \A c \in 1..Len(CATEGORY_KEYWORDS) :
            \A k \in 1..Len(CATEGORY_KEYWORDS[c].keywords) :
                ( /\ KeywordOccurs(c, k, payee.text)
                  /\ \A d \in 1..(c - 1) :
                        \A l \in 1..Len(CATEGORY_KEYWORDS[d].keywords) :
                            ~KeywordOccurs(d, l, payee.text) )
                    => returned = CATEGORY_KEYWORDS[c].category

\* "STARBUCKS #123" is returned as "Food & Dining"
C5_Witness ==
    /\ pc = "done"
    /\ payee.kind = "str"
    /\ payee.text = <<"S","T","A","R","B","U","C","K","S"," ","#","1","2","3">>
    /\ returned = "Food & Dining"

\* the payee is '', or missing, or a text in which no keyword occurs
NothingToCategorize(p) ==
    IF p.kind = "str" THEN CategoriesOccurring(p.text) = {} ELSE TRUE

\* C6: for an empty payee, a missing payee (None, not-a-number) and a payee
\* without any keyword, "Uncategorized" is returned and nothing is raised.
C6_UncategorizedWithoutRaising ==
    (pc \in {"done", "raised"} /\ NothingToCategorize(payee)) =>
        (raised = "" /\ returned = "Uncategorized")

(***************************************************************************)
(* calculate_budget_progress                                               *)
(***************************************************************************)
RECURSIVE SumAmounts(_)
SumAmounts(rows) ==
    IF rows = <<>> THEN 0 ELSE Head(rows).amount + SumAmounts(Tail(rows))

\* transactions_df['amount'] < 0
IsExpense(t) == t.amount < 0

\* kept.groupby('category')['amount'].sum(): one entry for each category
\* that has a row
SpendingOf(kept) ==
    [ c \in { kept[i].category : i \in DOMAIN kept } |->
        SumAmounts(SelectSeq(kept, LAMBDA t : t.category = c)) ]

\* result['category'].map(spending).fillna(0), on a copy of the budgets
WithSpent(budgets, spending) ==
    [ i \in DOMAIN budgets |->
        [ category |-> budgets[i].category,
          budgeted |-> budgets[i].budgeted,
          spent    |-> IF budgets[i].category \in DOMAIN spending
                       THEN spending[budgets[i].category]
                       ELSE 0 ] ]

\* the amounts summed whatever their sign
calculate_budget_progress_AllAmounts(budgets, df) ==
    WithSpent(budgets, SpendingOf(df))

calculate_budget_progress(budgets, df) ==
    WithSpent(budgets, SpendingOf(SelectSeq(df, IsExpense)))

(***************************************************************************)
(* show_budgets_page: the quantities shown for each budget row.  A ratio   *)
(* is kept exact, as numerator and denominator.                            *)
(***************************************************************************)
Abs(x) == IF x < 0 THEN 0 - x ELSE x

Ratio(n, d) == [ num |-> n, den |-> d ]

RatioLeq(a, b) == a.num * b.den <= b.num * a.den

RatioEq(a, b) == a.num * b.den = b.num * a.den

\* min(percent / 100, 1.0)
BarValue(percent) ==
    LET fraction == Ratio(percent.num, percent.den * 100)
    IN  IF RatioLeq(fraction, Ratio(1, 1)) THEN fraction ELSE Ratio(1, 1)

\* the row with remaining and percent cut off at the budget
ShownRow_Clamped(budget) ==
    LET budgeted  == budget.budgeted
        spent     == Abs(budget.spent)
        over      == spent > budgeted
        percent   == IF budgeted > 0
                     THEN (IF over THEN Ratio(100, 1) ELSE Ratio(spent * 100, budgeted))
                     ELSE Ratio(0, 1)
    IN  [ category  |-> budget.category,
          budgeted  |-> budgeted,
          spent     |-> spent,
          remaining |-> IF over THEN 0 ELSE budgeted - spent,
          percent   |-> percent,
          bar       |-> BarValue(percent) ]

\* the row computed from spent with its sign, without abs()
ShownRow_Signed(budget) ==
    LET budgeted  == budget.budgeted
        spent     == budget.spent
        percent   == IF budgeted > 0 THEN Ratio(spent * 100, budgeted) ELSE Ratio(0, 1)
    IN  [ category  |-> budget.category,
          budgeted  |-> budgeted,
          spent     |-> spent,
          remaining |-> budgeted - spent,
          percent   |-> percent,
          bar       |-> BarValue(percent) ]

\* one pass of `for _, budget in budget_progress.iterrows()`
ShownRow(budget) ==
    LET budgeted  == budget.budgeted
        spent     == Abs(budget.spent)
        percent   == IF budgeted > 0 THEN Ratio(spent * 100, budgeted) ELSE Ratio(0, 1)
    IN  [ category  |-> budget.category,
          budgeted  |-> budgeted,
          spent     |-> spent,
          remaining |-> budgeted - spent,
          percent   |-> percent,
          bar       |-> BarValue(percent) ]

\* the page run on the budgets and the month's transactions
PageShows(budgets, df) ==
    LET progress == calculate_budget_progress(budgets, df)
    IN  /\ budget_progress' = progress
        /\ shown' = [ i \in DOMAIN progress |-> ShownRow(progress[i]) ]

(***************************************************************************)
(* The budgets page over a month whose transactions change                 *)
(***************************************************************************)
MaxMonthTxns == 3

BudgetCategories == { "Groceries", "Shopping" }
BudgetedAmounts == { 0, 100, 500 }
MonthAmounts == { -650, -150, 0, 200 }

\* at most one budget row for a category of the month
BudgetTables ==
    { b \in UNION { [ 1..n -> [ category : BudgetCategories,
                                budgeted : BudgetedAmounts ] ] :
                    n \in 0..Cardinality(BudgetCategories) } :
        \A i \in DOMAIN b, j \in DOMAIN b : i # j => b[i].category # b[j].category }

InitBudget ==
    /\ budgets_df \in BudgetTables
    /\ this_month_df = <<>>
    /\ budget_progress = calculate_budget_progress(budgets_df, <<>>)
    /\ shown = [ i \in DOMAIN budgets_df |->
                   ShownRow(calculate_budget_progress(budgets_df, <<>>)[i]) ]
    /\ pc = "done"
    /\ MatchIdle
    /\ RulesIdle
    /\ CategorizeIdle
    /\ StoreIdle
    /\ FnIdle

\* a transaction of the month is added, and the page runs again
AddMonthTransaction ==
    /\ Len(this_month_df) < MaxMonthTxns
    /\ \E c \in BudgetCategories, a \in MonthAmounts :
          /\ this_month_df' = Append(this_month_df, [ category |-> c, amount |-> a ])
          /\ PageShows(budgets_df, this_month_df')
    /\ UNCHANGED <<pc, budgets_df, outsideBudget>>

\* an expense of the month gets a more negative amount, and the page runs again
GrowExpense ==
    /\ \E i \in DOMAIN this_month_df, a \in MonthAmounts :
          /\ this_month_df[i].amount < 0
          /\ a < this_month_df[i].amount
          /\ this_month_df' = [ this_month_df EXCEPT ![i].amount = a ]
          /\ PageShows(budgets_df, this_month_df')
    /\ UNCHANGED <<pc, budgets_df, outsideBudget>>

NextBudget ==
    \/ AddMonthTransaction
    \/ GrowExpense

SpecBudget == InitBudget /\ [][NextBudget]_vars

(***************************************************************************)
(* C8, C9, C10: spent, remaining and percent                               *)
(***************************************************************************)
\* the transactions of the month that are expenses of category c
ExpensesOf(c) ==
    { i \in DOMAIN this_month_df :
        this_month_df[i].amount < 0 /\ this_month_df[i].category = c }

RECURSIVE SumOver(_)
SumOver(indices) ==
    IF indices = {} THEN 0
    ELSE LET i == CHOOSE i \in indices : TRUE
         IN  this_month_df[i].amount + SumOver(indices \ {i})

\* C8: each budget row gets as spent the sum of the amounts of exactly the
\* transactions with amount < 0 of its category, 0 if there is none; spent
\* is never positive.
C8_SpentIsSumOfExpenses ==
    /\ Len(budget_progress) = Len(budgets_df)
    /\ \A r \in DOMAIN budget_progress :
          /\ budget_progress[r].category = budgets_df[r].category
          /\ budget_progress[r].spent = SumOver(ExpensesOf(budgets_df[r].category))
          /\ ExpensesOf(budgets_df[r].category) = {} => budget_progress[r].spent = 0
          /\ budget_progress[r].spent <= 0

\* two expenses and an income in one category, nothing in the other
C8_Witness ==
    /\ Len(budget_progress) = 2
    /\ \E r \in DOMAIN budget_progress :
          /\ budget_progress[r].spent = -800
          /\ \E i \in DOMAIN this_month_df :
                /\ this_month_df[i].amount > 0
                /\ this_month_df[i].category = budget_progress[r].category
    /\ \E r \in DOMAIN budget_progress : budget_progress[r].spent = 0

\* C9: for budgeted > 0, remaining = budgeted - |spent| and percent =
\* |spent| / budgeted * 100, neither of them cut off: over budget, remaining
\* is negative and percent above 100; only the bar value stops at 1 (100%).
C9_NotClamped ==
    /\ Len(shown) = Len(budget_progress)
    /\ \A i \in DOMAIN shown :
          LET budgeted == budget_progress[i].budgeted
              spent    == Abs(budget_progress[i].spent)
          IN  budgeted > 0 =>
                /\ shown[i].remaining = budgeted - spent
                /\ RatioEq(shown[i].percent, Ratio(spent * 100, budgeted))
                /\ spent > budgeted =>
                      /\ shown[i].remaining < 0
                      /\ ~RatioLeq(shown[i].percent, Ratio(100, 1))
                      /\ RatioEq(shown[i].bar, Ratio(1, 1))
                /\ RatioLeq(shown[i].bar, Ratio(1, 1))

\* budgeted 500 and expenses of -650: remaining -150, percent 130, bar full
C9_Witness ==
    \E i \in DOMAIN shown :
        /\ budget_progress[i].budgeted = 500
        /\ budget_progress[i].spent = -650
        /\ shown[i].remaining = -150
        /\ RatioEq(shown[i].percent, Ratio(130, 1))
        /\ RatioEq(shown[i].bar, Ratio(1, 1))

\* the step adds an expense of category c, or makes one more negative
ExpenseGrows(c) ==
    \/ \E a \in MonthAmounts :
          /\ a < 0
          /\ this_month_df' = Append(this_month_df, [ category |-> c, amount |-> a ])
    \/ \E i \in ExpensesOf(c) :
          /\ Len(this_month_df') = Len(this_month_df)
          /\ this_month_df'[i].category = c
          /\ this_month_df'[i].amount < this_month_df[i].amount
          /\ \A j \in DOMAIN this_month_df : j # i => this_month_df'[j] = this_month_df[j]

\* C10: with the budgeted amount > 0 fixed, a further expense in the
\* category, or an expense made more negative, never lowers percent_used
\* and never raises remaining.
C10_MonotonicInSpending ==
    [][ \A i \in DOMAIN shown :
          ( /\ shown[i].budgeted > 0
            /\ budgets_df' = budgets_df
            /\ ExpenseGrows(shown[i].category) )
          => /\ RatioLeq(shown[i].percent, shown'[i].percent)
             /\ shown'[i].remaining <= shown[i].remaining ]_vars

\* a budget with two expenses in its category, the second added while the
\* first had already used part of it
C10_Witness ==
    \E i \in DOMAIN shown :
        /\ shown[i].budgeted > 0
        /\ Cardinality(ExpensesOf(shown[i].category)) = 2
        /\ shown[i].remaining < 0
        /\ SumOver(ExpensesOf(shown[i].category)) = -1300

(***************************************************************************)
(* db_manager.set_budget on the Budget_Monthly sheet.  A call may find the *)
(* store failing: "open" is get_spreadsheet() returning None, "read" the   *)
(* reading of the records raising, "write" the first write raising and     *)
(* "write2" the second update_cell raising.                                *)
(***************************************************************************)
MaxClock == 3

StoreUsers == { "u1", "u2" }
SetAmounts == { 100, 500 }
StoreFailures == { "none", "open", "read", "write", "write2" }

\* the (user_id, month_year, category) a call is made for: each of the three
\* differs from the first tuple in one place
BudgetKeys ==
    { << "u1", <<"2","0","2","5","-","0","1">>, "Groceries" >>,
      << "u2", <<"2","0","2","5","-","0","1">>, "Groceries" >>,
      << "u1", <<"2","0","2","5","-","0","2">>, "Groceries" >>,
      << "u1", <<"2","0","2","5","-","0","1">>, "Shopping" >> }

\* the rows of df that the three comparisons of `existing` keep
ExistingRows(sheet, u, p, c) ==
    { i \in DOMAIN sheet :
        /\ sheet[i].user_id = u
        /\ sheet[i].month_year = p
        /\ sheet[i].category = c }

\* existing.index[0]: the first of them
FirstOf(indices) == CHOOSE i \in indices : \A j \in indices : i <= j

BudgetRow(u, p, c, a, t) ==
    [ user_id |-> u, month_year |-> p, category |-> c, budgeted |-> a,
      spent |-> 0, last_updated |-> t ]

\* what a write operation of db_manager leaves: the sheet, the value it
\* returned, whether it reached the clear() of the cache before its
\* `return True`, and whether the store refused one of its calls
Outcome(sheet, ok, rejected) ==
    [ sheet |-> sheet, ok |-> ok, cleared |-> ok, rejected |-> rejected ]

\* a set_budget that appends without looking for the row
set_budget_AlwaysAppend(sheet, u, p, c, a, t, fail) ==
    IF fail \in { "open", "read", "write" }
    THEN Outcome(sheet, FALSE, TRUE)
    ELSE Outcome(Append(sheet, BudgetRow(u, p, c, a, t)), TRUE, FALSE)

\* the sheet after the call and the value returned
set_budget(sheet, u, p, c, a, t, fail) ==
    IF fail = "open"
    THEN \* if not spreadsheet: return False
         Outcome(sheet, FALSE, TRUE)
    ELSE IF fail = "read"
    THEN \* get_all_records() raises: except ... return False
         Outcome(sheet, FALSE, TRUE)
    ELSE IF sheet = <<>>
    THEN \* records == [] gives a frame without columns and df['user_id']
         \* raises KeyError: except ... return False
         Outcome(sheet, FALSE, FALSE)
    ELSE IF ExistingRows(sheet, u, p, c) # {}
    THEN LET i == FirstOf(ExistingRows(sheet, u, p, c))
         IN  IF fail = "write"
             THEN Outcome(sheet, FALSE, TRUE)
             ELSE IF fail = "write2"
             THEN \* update_cell(row, 4, budgeted) went through
                  Outcome([ sheet EXCEPT ![i].budgeted = a ], FALSE, TRUE)
             ELSE Outcome([ sheet EXCEPT ![i].budgeted = a,
                                         ![i].last_updated = t ], TRUE, FALSE)
    ELSE IF fail = "write"
    THEN Outcome(sheet, FALSE, TRUE)
    ELSE \* append_row is the only write
         Outcome(Append(sheet, BudgetRow(u, p, c, a, t)), TRUE, FALSE)

NoDuplicateBudget(sheet) ==
    \A i \in DOMAIN sheet, j \in DOMAIN sheet :
        i # j => \/ sheet[i].user_id # sheet[j].user_id
                 \/ sheet[i].month_year # sheet[j].month_year
                 \/ sheet[i].category # sheet[j].category

\* the sheet as setup_sheets.py leaves it (header only), or with one row
InitialBudgetSheets ==
    { <<>> } \cup
    { << BudgetRow(k[1], k[2], k[3], a, 0) >> : k \in BudgetKeys, a \in SetAmounts }

InitBudgetSheet ==
    /\ budget_sheet \in InitialBudgetSheets
    /\ rules_sheet = <<>>
    /\ transactions_sheet = <<>>
    /\ rules_cache = <<>>
    /\ transactions_cache = <<>>
    /\ budgets_cache = <<>>
    /\ users_sheet = <<>>
    /\ user_data_sheet = <<>>
    /\ sessions = <<>>
    /\ last_call = NoCall
    /\ last_result = NoCall
    /\ now = 0
    /\ pc = "done"
    /\ MatchIdle
    /\ RulesIdle
    /\ CategorizeIdle
    /\ BudgetIdle
    /\ FnIdle

SetBudget ==
    /\ now < MaxClock
    /\ \E k \in BudgetKeys, a \in SetAmounts, fail \in StoreFailures :
          LET u == k[1]
              p == k[2]
              c == k[3]
              out == set_budget(budget_sheet, u, p, c, a, now + 1, fail)
          IN  /\ budget_sheet' = out.sheet
              /\ budgets_cache' = IF out.cleared THEN <<>> ELSE budgets_cache
              /\ last_result' = [ value |-> out.ok ]
              /\ last_call' = [ op |-> "set_budget", user_id |-> u,
                                 month_year |-> p, category |-> c,
                                 budgeted |-> a, fail |-> fail,
                                 rejected |-> out.rejected,
                                 rows_before |-> Len(budget_sheet),
                                 sheet_before |-> budget_sheet ]
    /\ now' = now + 1
    /\ UNCHANGED <<rules_sheet, transactions_sheet, rules_cache,
                   transactions_cache, accountVars, sessions, outsideStore>>

NextBudgetSheet == SetBudget

SpecBudgetSheet == InitBudgetSheet /\ [][NextBudgetSheet]_vars

(***************************************************************************)
(* C11, C12: one budget row for a user, a month and a category             *)
(***************************************************************************)
\* C11: after set_budget calls made one at a time, from the header-only
\* sheet (and from any sheet without two rows for one tuple), the sheet has
\* at most one row for each (user_id, month_year, category).
C11_OneRowPerTuple == NoDuplicateBudget(budget_sheet)

\* the sheet started with its header only and set_budget was called for a
\* tuple twice in a row while the store answered
C11_Witness ==
    /\ budget_sheet = <<>>
    /\ now >= 2
    /\ last_call.op = "set_budget"
    /\ last_call.fail = "none"

\* C12: with the store reachable, set_budget(u, p, c, a) returns True and
\* the sheet then holds a row for (u, p, c) with budgeted = a, appended if
\* there was none and overwritten in place otherwise.
C12_SetBudgetSucceeds ==
    (last_call.op = "set_budget" /\ last_call.fail = "none") =>
        /\ last_result = [ value |-> TRUE ]
        /\ \E i \in ExistingRows(budget_sheet, last_call.user_id,
                                  last_call.month_year, last_call.category) :
              budget_sheet[i].budgeted = last_call.budgeted
        /\ Len(budget_sheet) \in { last_call.rows_before, last_call.rows_before + 1 }

(***************************************************************************)
(* utils.calculate_monthly_summary.  A DataFrame is its columns, the dtype *)
(* of its date column and its rows; a date is its year and its month, NaT  *)
(* what pd.to_datetime(errors='coerce') makes of a cell that is no date.   *)
(***************************************************************************)
MaxFrameRows == 3

NaT == [ year |-> 0, month |-> 0 ]

\* str.zfill, as the %Y and %m of strftime pad their number
RECURSIVE ZeroPad(_, _)
ZeroPad(text, width) ==
    IF Len(text) >= width THEN text ELSE ZeroPad(<<"0">> \o text, width)

\* date.strftime(config.MONTH_YEAR_FORMAT), "%Y-%m"; NaN for NaT, which
\* compares unequal to every text
MONTH_YEAR_FORMAT(date) ==
    IF date = NaT THEN [ nan |-> TRUE ]
    ELSE [ nan |-> FALSE,
           text |-> ZeroPad(NatToStr(date.year), 4) \o <<"-">>
                    \o ZeroPad(NatToStr(date.month), 2) ]

\* df['date'].dt.strftime(...) == month_year, for one row
InMonth(t, month_year) ==
    LET formatted == MONTH_YEAR_FORMAT(t.date)
    IN  ~formatted.nan /\ formatted.text = month_year

\* pd.DataFrame(): no columns and no rows
EmptyFrame == [ columns |-> FALSE, datetime |-> FALSE, rows |-> <<>> ]

\* what load_user_transactions returns when the sheet has rows and none is
\* the user's: the columns of the sheet, the date cells never converted
UnconvertedFrame == [ columns |-> TRUE, datetime |-> FALSE, rows |-> <<>> ]

\* a frame whose date column was converted by pd.to_datetime
Frame(rows) == [ columns |-> TRUE, datetime |-> TRUE, rows |-> rows ]

ZeroSummary ==
    [ raised |-> "none", income |-> 0, expenses |-> 0, net |-> 0,
      transaction_count |-> 0, avg_transaction |-> Ratio(0, 1) ]

\* a summary over every row of the frame, whatever its month
calculate_monthly_summary_AllMonths(df, month_year) ==
    IF ~df.columns THEN [ raised |-> "KeyError" ]
    ELSE IF ~df.datetime THEN [ raised |-> "AttributeError" ]
    ELSE LET month_df == df.rows
             income == SumAmounts(SelectSeq(month_df, LAMBDA t : t.amount > 0))
             expenses == Abs(SumAmounts(SelectSeq(month_df, LAMBDA t : t.amount < 0)))
         IN  IF Len(month_df) = 0 THEN ZeroSummary
             ELSE [ raised |-> "none", income |-> income, expenses |-> expenses,
                    net |-> income - expenses,
                    transaction_count |-> Len(month_df),
                    avg_transaction |-> Ratio(SumAmounts(month_df), Len(month_df)) ]

\* the dict returned, or the exception that leaves the function
calculate_monthly_summary(df, month_year) ==
    IF ~df.columns
    THEN \* df['date'] of a frame without columns
         [ raised |-> "KeyError" ]
    ELSE IF ~df.datetime
    THEN \* .dt of a column that is not datetimelike
         [ raised |-> "AttributeError" ]
    ELSE LET month_df == SelectSeq(df.rows, LAMBDA t : InMonth(t, month_year))
             income == SumAmounts(SelectSeq(month_df, LAMBDA t : t.amount > 0))
             expenses == Abs(SumAmounts(SelectSeq(month_df, LAMBDA t : t.amount < 0)))
         IN  IF Len(month_df) = 0 THEN ZeroSummary
             ELSE [ raised |-> "none", income |-> income, expenses |-> expenses,
                    net |-> income - expenses,
                    transaction_count |-> Len(month_df),
                    avg_transaction |-> Ratio(SumAmounts(month_df), Len(month_df)) ]

SummaryDates ==
    { [ year |-> 2025, month |-> 1 ], [ year |-> 2025, month |-> 2 ],
      [ year |-> 2024, month |-> 1 ], NaT }
SummaryAmounts == { -50, -20, 0, 30 }
SummaryPeriods == { <<"2","0","2","5","-","0","1">>, <<"2","0","2","4","-","0","1">> }

RECURSIVE SeqsUpTo(_, _)
SeqsUpTo(S, n) ==
    IF n = 0 THEN { <<>> }
    ELSE LET shorter == SeqsUpTo(S, n - 1)
         IN  shorter \cup { Append(q, x) : q \in shorter, x \in S }

SummaryFrames ==
    { EmptyFrame, UnconvertedFrame } \cup
    { Frame(rows) :
        rows \in SeqsUpTo([ date : SummaryDates, amount : SummaryAmounts ],
                          MaxFrameRows) }

InitSummary ==
    /\ pc = "call"
    /\ \E df \in SummaryFrames, month_year \in SummaryPeriods :
          fn_args = [ op |-> "calculate_monthly_summary", df |-> df,
                      month_year |-> month_year ]
    /\ fn_result = NoCall
    /\ MatchIdle
    /\ RulesIdle
    /\ CategorizeIdle
    /\ BudgetIdle
    /\ StoreIdle

CallMonthlySummary ==
    /\ pc = "call"
    /\ fn_args.op = "calculate_monthly_summary"
    /\ LET out == calculate_monthly_summary(fn_args.df, fn_args.month_year)
       IN  /\ fn_result' = out
           /\ pc' = IF out.raised = "none" THEN "done" ELSE "raised"
    /\ UNCHANGED <<fn_args, outsideFn>>

NextSummary == CallMonthlySummary

SpecSummary == InitSummary /\ [][NextSummary]_vars

(***************************************************************************)
(* C13, C14: the summary of a month                                        *)
(***************************************************************************)
RECURSIVE StrToNat(_)
StrToNat(text) ==
    IF text = <<>> THEN 0
    ELSE LET last == text[Len(text)]
             digit == CHOOSE n \in 0..9 : Digits[n + 1] = last
         IN  10 * StrToNat(SubSeq(text, 1, Len(text) - 1)) + digit

\* the rows of the frame dated in the year and month the period names
RowsInPeriod(df, month_year) ==
    { i \in DOMAIN df.rows :
        /\ df.rows[i].date.year = StrToNat(SubSeq(month_year, 1, 4))
        /\ df.rows[i].date.month = StrToNat(SubSeq(month_year, 6, 7)) }

RECURSIVE SumAt(_, _)
SumAt(rows, indices) ==
    IF indices = {} THEN 0
    ELSE LET i == CHOOSE i \in indices : TRUE
         IN  rows[i].amount + SumAt(rows, indices \ {i})

SummaryCalled == pc # "call" /\ fn_args.op = "calculate_monthly_summary"

\* C13: with no transaction in the period, the empty collection of
\* load_user_transactions included, calculate_monthly_summary returns the
\* all-zero summary and does not raise.
C13_ZeroSummaryNeverRaises ==
    (SummaryCalled /\ RowsInPeriod(fn_args.df, fn_args.month_year) = {}) =>
        /\ pc = "done"
        /\ fn_result = ZeroSummary

\* C14: for a period with at least one transaction the summary counts the
\* transactions dated in that year and month and no other: income is the
\* sum of their positive amounts, expenses the absolute value of the sum of
\* their negative amounts, net = income - expenses = their signed sum and
\* transaction_count their number.
C14_SummaryOfThePeriod ==
    LET df == fn_args.df
        period == RowsInPeriod(df, fn_args.month_year)
        positive == { i \in period : df.rows[i].amount > 0 }
        negative == { i \in period : df.rows[i].amount < 0 }
    IN  (SummaryCalled /\ period # {}) =>
            /\ pc = "done"
            /\ fn_result.raised = "none"
            /\ fn_result.income = SumAt(df.rows, positive)
            /\ fn_result.expenses = Abs(SumAt(df.rows, negative))
            /\ fn_result.net = fn_result.income - fn_result.expenses
            /\ fn_result.net = SumAt(df.rows, period)
            /\ fn_result.transaction_count = Cardinality(period)

\* a month with an income and an expense, and a row of another month
C14_Witness ==
    LET df == fn_args.df
        period == RowsInPeriod(df, fn_args.month_year)
    IN  /\ SummaryCalled
        /\ pc = "done"
        /\ \E i \in period, j \in period :
              df.rows[i].amount > 0 /\ df.rows[j].amount < 0
        /\ \E k \in DOMAIN df.rows : k \notin period /\ df.rows[k].amount # 0
        /\ fn_result.transaction_count = 2

(***************************************************************************)
(* utils.calculate_trend.  The percentage is kept as an exact ratio.       *)
(***************************************************************************)
\* a trend whose change is divided by previous, not by abs(previous)
calculate_trend_SignedDivisor(current, previous) ==
    IF previous = 0 THEN [ percent |-> Ratio(0, 1), direction |-> "neutral" ]
    ELSE LET sign == IF previous < 0 THEN 0 - 1 ELSE 1
             change == Ratio(sign * (current - previous) * 100, Abs(previous))
         IN  [ percent |-> Ratio(Abs(change.num), change.den),
               direction |-> IF change.num > 0 THEN "up"
                             ELSE IF change.num < 0 THEN "down"
                             ELSE "neutral" ]

\* the pair returned
calculate_trend(current, previous) ==
    IF previous = 0 THEN [ percent |-> Ratio(0, 1), direction |-> "neutral" ]
    ELSE LET \* ((current - previous) / abs(previous)) * 100
             change == Ratio((current - previous) * 100, Abs(previous))
         IN  [ percent |-> Ratio(Abs(change.num), change.den),
               direction |-> IF change.num > 0 THEN "up"
                             ELSE IF change.num < 0 THEN "down"
                             ELSE "neutral" ]

TrendValues == { -200, -100, -50, -1, 0, 1, 50, 100, 150, 200 }

InitTrend ==
    /\ pc = "call"
    /\ \E current \in TrendValues, previous \in TrendValues :
          fn_args = [ op |-> "calculate_trend", current |-> current,
                      previous |-> previous ]
    /\ fn_result = NoCall
    /\ MatchIdle
    /\ RulesIdle
    /\ CategorizeIdle
    /\ BudgetIdle
    /\ StoreIdle

CallTrend ==
    /\ pc = "call"
    /\ fn_args.op = "calculate_trend"
    /\ fn_result' = calculate_trend(fn_args.current, fn_args.previous)
    /\ pc' = "done"
    /\ UNCHANGED <<fn_args, outsideFn>>

NextTrend == CallTrend

SpecTrend == InitTrend /\ [][NextTrend]_vars

(***************************************************************************)
(* C15: the trend between two periods                                      *)
(***************************************************************************)
TrendCalled == pc = "done" /\ fn_args.op = "calculate_trend"

\* C15: calculate_trend returns (0.0, "neutral") whenever previous = 0;
\* otherwise the percentage is |(current - previous) / previous| * 100 and
\* the direction is "up" iff current > previous, "down" iff current <
\* previous, "neutral" iff they are equal, a negative previous included.
C15_TrendOfTwoPeriods ==
    TrendCalled =>
        LET current == fn_args.current
            previous == fn_args.previous
            percent == fn_result.percent
            quotient == Ratio((current - previous) * 100, previous)
        IN  IF previous = 0
            THEN fn_result = [ percent |-> Ratio(0, 1), direction |-> "neutral" ]
            ELSE /\ percent.den # 0
                 /\ percent.num * percent.den >= 0
                 /\ \/ RatioEq(percent, quotient)
                    \/ RatioEq(percent, Ratio(0 - quotient.num, quotient.den))
                 /\ (fn_result.direction = "up") <=> (current > previous)
                 /\ (fn_result.direction = "down") <=> (current < previous)
                 /\ (fn_result.direction = "neutral") <=> (current = previous)

\* a rise from a negative previous value: -100 to 50 is 150 percent up
C15_Witness ==
    /\ TrendCalled
    /\ fn_args.previous < 0
    /\ fn_args.current > 0
    /\ fn_result.direction = "up"
    /\ RatioEq(fn_result.percent, Ratio(150, 1))

(***************************************************************************)
(* utils.get_top_merchants.  sort_values does not say how it orders equal  *)
(* totals (its default kind is not a stable sort), so every non-increasing *)
(* order of the groups is a result the call can give.                      *)
(***************************************************************************)
\* expenses['amount'].abs() on the rows with amount < 0
AbsExpenses(rows) ==
    LET expenses == SelectSeq(rows, IsExpense)
    IN  [ i \in DOMAIN expenses |->
            [ expenses[i] EXCEPT !.amount = Abs(expenses[i].amount) ] ]

\* expenses.groupby('payee')['amount'].sum()
TotalByPayee(expenses) ==
    [ p \in { expenses[i].payee : i \in DOMAIN expenses } |->
        SumAmounts(SelectSeq(expenses, LAMBDA t : t.payee = p)) ]

RECURSIVE Orders(_)
Orders(S) ==
    IF S = {} THEN { <<>> }
    ELSE UNION { { <<x>> \o q : q \in Orders(S \ {x}) } : x \in S }

\* .sort_values(ascending=False)
Descending(totals) ==
    { q \in Orders(DOMAIN totals) :
        \A i \in 1..(Len(q) - 1) : totals[q[i]] >= totals[q[i + 1]] }

\* .head(n)
FirstRows(q, n) == SubSeq(q, 1, IF n < Len(q) THEN n ELSE Len(q))

\* the frames the call can return, or the exception that leaves it
get_top_merchants(df, n) ==
    IF ~df.columns
    THEN \* df['amount'] of a frame without columns
         { [ raised |-> "KeyError" ] }
    ELSE LET totals == TotalByPayee(AbsExpenses(df.rows))
         IN  { [ raised |-> "none",
                 rows |-> [ i \in DOMAIN FirstRows(q, n) |->
                              [ Merchant |-> q[i], TotalSpent |-> totals[q[i]] ] ] ] :
                 q \in Descending(totals) }

MerchantPayees == { "Cafe", "Shop", "" }
MerchantAmounts == { -50, -20, 30 }
MerchantCounts == { 1, 3, 10 }

MerchantFrames ==
    { EmptyFrame, UnconvertedFrame } \cup
    { Frame(rows) :
        rows \in SeqsUpTo([ payee : MerchantPayees, amount : MerchantAmounts ],
                          MaxFrameRows) }

InitMerchants ==
    /\ pc = "call"
    /\ \E df \in MerchantFrames, n \in MerchantCounts :
          fn_args = [ op |-> "get_top_merchants", df |-> df, n |-> n ]
    /\ fn_result = NoCall
    /\ MatchIdle
    /\ RulesIdle
    /\ CategorizeIdle
    /\ BudgetIdle
    /\ StoreIdle

CallTopMerchants ==
    /\ pc = "call"
    /\ fn_args.op = "get_top_merchants"
    /\ \E out \in get_top_merchants(fn_args.df, fn_args.n) :
          /\ fn_result' = out
          /\ pc' = IF out.raised = "none" THEN "done" ELSE "raised"
    /\ UNCHANGED <<fn_args, outsideFn>>

NextMerchants == CallTopMerchants

SpecMerchants == InitMerchants /\ [][NextMerchants]_vars

(***************************************************************************)
(* C16: the totals of the merchants add up to the expenses                 *)
(***************************************************************************)
MerchantsCalled == pc # "call" /\ fn_args.op = "get_top_merchants"

DistinctPayees(df) == { df.rows[i].payee : i \in DOMAIN df.rows }

RECURSIVE SumTotalSpent(_)
SumTotalSpent(rows) ==
    IF rows = <<>> THEN 0 ELSE Head(rows).TotalSpent + SumTotalSpent(Tail(rows))

RoundTrip ==
    LET df == fn_args.df
        expenses == { i \in DOMAIN df.rows : df.rows[i].amount < 0 }
    IN  /\ pc = "done"
        /\ fn_result.raised = "none"
        /\ SumTotalSpent(fn_result.rows) = Abs(SumAt(df.rows, expenses))
        /\ \A i \in expenses :
              Cardinality({ k \in DOMAIN fn_result.rows :
                              fn_result.rows[k].Merchant = df.rows[i].payee }) = 1

\* C16: for any transaction collection and n at least the number of its
\* distinct payees, the 'Total Spent' values returned add up to the sum of
\* |amount| over the transactions with amount < 0, and each payee with an
\* expense is in exactly one returned row.
C16_TotalsAddUpToExpenses ==
    (MerchantsCalled /\ fn_args.n >= Cardinality(DistinctPayees(fn_args.df))) =>
        RoundTrip

\* the same for the collections that have their columns
C16_TotalsAddUpWithColumns ==
    (/\ MerchantsCalled
     /\ fn_args.df.columns
     /\ fn_args.n >= Cardinality(DistinctPayees(fn_args.df))) => RoundTrip

(***************************************************************************)
(* db_manager on the Transactions sheet.  A transaction_id is a uuid4: a   *)
(* number no other row has.  The row of a transaction is its user_id,      *)
(* transaction_id, date, payee, amount, category and modified_at.          *)
(***************************************************************************)
\* transaction_ids.index(txn_id): the first row with that id, 0 for ValueError
RowIndexOf(sheet, transaction_id) ==
    LET found == { i \in DOMAIN sheet : sheet[i].transaction_id = transaction_id }
    IN  IF found = {} THEN 0 ELSE FirstOf(found)

\* the sheet after the call, the value returned, and whether the cache of
\* load_user_transactions was cleared
update_transaction_category(sheet, transaction_id, category, t, fail) ==
    LET row_index == RowIndexOf(sheet, transaction_id)
    IN  IF fail \in { "open", "read" }
        THEN Outcome(sheet, FALSE, TRUE)
        ELSE IF row_index = 0
        THEN \* except ValueError: st.error("Transaction not found")
             Outcome(sheet, FALSE, FALSE)
        ELSE IF fail = "write"
        THEN Outcome(sheet, FALSE, TRUE)
        ELSE IF fail = "write2"
        THEN \* update_cell(row_index, 6, category) went through
             Outcome([ sheet EXCEPT ![row_index].category = category ],
                     FALSE, TRUE)
        ELSE Outcome([ sheet EXCEPT ![row_index].category = category,
                                     ![row_index].modified_at = t ],
                     TRUE, FALSE)

\* the cells of batch_updates written one after the other
RECURSIVE WriteCategories(_, _, _)
WriteCategories(sheet, update_list, t) ==
    IF update_list = <<>> THEN sheet
    ELSE LET row_index == RowIndexOf(sheet, Head(update_list)[1])
             written ==
                 IF row_index = 0
                 THEN \* except ValueError: continue
                      sheet
                 ELSE [ sheet EXCEPT ![row_index].category = Head(update_list)[2],
                                     ![row_index].modified_at = t ]
         IN  WriteCategories(written, Tail(update_list), t)

\* batch_update is one call: it writes every cell or raises
batch_update_transaction_categories(sheet, update_list, t, fail) ==
    LET found == { k \in DOMAIN update_list : RowIndexOf(sheet, update_list[k][1]) # 0 }
    IN  IF fail \in { "open", "read" }
        THEN Outcome(sheet, FALSE, TRUE)
        ELSE IF found # {} /\ fail = "write"
        THEN Outcome(sheet, FALSE, TRUE)
        ELSE Outcome(WriteCategories(sheet, update_list, t), TRUE, FALSE)

UpdateCategories == { "Shopping", "Food & Dining" }

StoredRow(u, id, text, category) ==
    [ user_id |-> u, transaction_id |-> id, date |-> "2025-01-15",
      payee |-> text, amount |-> -5, category |-> category, modified_at |-> 0 ]

\* the sheet with its header only, with one row, with two
StoredSheets ==
    { <<>> } \cup
    { << StoredRow("u1", 1, <<"z">>, c) >> : c \in { "Uncategorized", "Shopping" } } \cup
    { << StoredRow("u1", 1, <<"z">>, "Uncategorized"),
         StoredRow(u, 2, <<"z">>, "Food & Dining") >> : u \in StoreUsers }

\* 1 and 2 are ids a sheet can hold, 8 and 9 are ids of no row
UpdateIds == { 1, 2, 9 }
UpdateLists ==
    { <<>>, << <<9, "Shopping">> >>, << <<9, "Shopping">>, <<8, "Food & Dining">> >>,
      << <<1, "Shopping">> >>, << <<9, "Food & Dining">>, <<2, "Shopping">> >>,
      << <<1, "Shopping">>, <<1, "Food & Dining">> >> }

InitUpdates ==
    /\ transactions_sheet \in StoredSheets
    /\ budget_sheet = <<>>
    /\ rules_sheet = <<>>
    /\ rules_cache = <<>>
    /\ transactions_cache = <<>>
    /\ budgets_cache = <<>>
    /\ users_sheet = <<>>
    /\ user_data_sheet = <<>>
    /\ sessions = <<>>
    /\ last_call = NoCall
    /\ last_result = NoCall
    /\ now = 0
    /\ pc = "done"
    /\ MatchIdle
    /\ RulesIdle
    /\ CategorizeIdle
    /\ BudgetIdle
    /\ FnIdle

UpdateTransactionCategory ==
    /\ now < MaxClock
    /\ \E transaction_id \in UpdateIds, category \in UpdateCategories,
          fail \in StoreFailures :
          LET out == update_transaction_category(transactions_sheet,
                         transaction_id, category, now + 1, fail)
          IN  /\ transactions_sheet' = out.sheet
              /\ transactions_cache' =
                     IF out.cleared THEN <<>> ELSE transactions_cache
              /\ last_result' = [ value |-> out.ok ]
              /\ last_call' = [ op |-> "update_transaction_category",
                                 ids |-> { transaction_id }, fail |-> fail,
                                 rejected |-> out.rejected,
                                 sheet_before |-> transactions_sheet ]
    /\ now' = now + 1
    /\ UNCHANGED <<budget_sheet, rules_sheet, rules_cache, budgets_cache,
                   accountVars, sessions, outsideStore>>

BatchUpdateTransactionCategories ==
    /\ now < MaxClock
    /\ \E update_list \in UpdateLists, fail \in StoreFailures :
          LET out == batch_update_transaction_categories(transactions_sheet,
                         update_list, now + 1, fail)
          IN  /\ transactions_sheet' = out.sheet
              /\ transactions_cache' =
                     IF out.cleared THEN <<>> ELSE transactions_cache
              /\ last_result' = [ value |-> out.ok ]
              /\ last_call' = [ op |-> "batch_update_transaction_categories",
                                 ids |-> { update_list[k][1] : k \in DOMAIN update_list },
                                 fail |-> fail,
                                 rejected |-> out.rejected,
                                 sheet_before |-> transactions_sheet ]
    /\ now' = now + 1
    /\ UNCHANGED <<budget_sheet, rules_sheet, rules_cache, budgets_cache,
                   accountVars, sessions, outsideStore>>

NextUpdates == UpdateTransactionCategory \/ BatchUpdateTransactionCategories

SpecUpdates == InitUpdates /\ [][NextUpdates]_vars

(***************************************************************************)
(* C18: an update of a transaction that is not there                       *)
(***************************************************************************)
\* C18: update_transaction_category with an id of no stored row, and
\* batch_update_transaction_categories with a list of such ids only, leave
\* every stored row as it was and return False.
C18_MissingIdReportedAsFailure ==
    (/\ last_call.op \in { "update_transaction_category",
                           "batch_update_transaction_categories" }
     /\ last_call.ids # {}
     /\ \A id \in last_call.ids : RowIndexOf(last_call.sheet_before, id) = 0) =>
        /\ transactions_sheet = last_call.sheet_before
        /\ last_result = [ value |-> FALSE ]

\* the same for update_transaction_category alone, which does report it
C18_SingleUpdateReportsMissingId ==
    (/\ last_call.op = "update_transaction_category"
     /\ \A id \in last_call.ids : RowIndexOf(last_call.sheet_before, id) = 0) =>
        /\ transactions_sheet = last_call.sheet_before
        /\ last_result = [ value |-> FALSE ]

(***************************************************************************)
(* The pages of app.py over the store: the CSV import, 'Save Category',    *)
(* 'Add Rule' and 'Apply Rules to All Transactions'.  The two loads are    *)
(* st.cache_data functions whose only parameter, _user_id, is left out of  *)
(* the cache key: each has one cache entry whoever asks.                   *)
(***************************************************************************)
DEFAULT_CATEGORIES ==
    << "Uncategorized", "Income", "Food & Dining", "Groceries",
       "Transportation", "Gas & Fuel", "Shopping", "Entertainment",
       "Bills & Utilities", "Healthcare", "Travel", "Personal Care",
       "Education", "Gifts & Donations", "Investments", "Transfer", "Other" >>

\* auto_categorize_transaction as a function of its argument
auto_categorize_transaction(p) ==
    IF ~Truthy(p) THEN [ raised |-> "none", category |-> "Uncategorized" ]
    ELSE IF p.kind # "str" THEN [ raised |-> "AttributeError" ]
    ELSE LET text == Lower(p.text)
             hits == { i \in DOMAIN CATEGORY_KEYWORDS :
                         AnyKeywordIn(CATEGORY_KEYWORDS[i], text) }
         IN  [ raised |-> "none",
               category |-> IF hits = {} THEN "Uncategorized"
                            ELSE CATEGORY_KEYWORDS[FirstOf(hits)].category ]

\* pd.to_datetime(errors='coerce') of a date cell
to_datetime(cell) ==
    IF cell = "2025-01-15" THEN [ year |-> 2025, month |-> 1, day |-> 15 ]
    ELSE IF cell = "2025-02-01" THEN [ year |-> 2025, month |-> 2, day |-> 1 ]
    ELSE NaT

\* float(row['amount'])
ToFloat(cell) ==
    IF cell.kind = "number" THEN [ raised |-> "none", value |-> cell.value ]
    ELSE [ raised |-> "ValueError" ]

CsvRow(date, p, amount) ==
    [ date |-> date, payee |-> p, amount |-> amount, category |-> "Bogus" ]
Str(text) == [ kind |-> "str", text |-> text ]
Number(n) == [ kind |-> "number", value |-> n ]

\* the uploaded files: a good row; no payee column; a date that is none; an
\* amount that is no number after a good row; two good rows
CsvFiles ==
    { [ columns |-> { "date", "payee", "amount", "category" },
        rows |-> << CsvRow("2025-01-15", Str(<<"B","P">>), Number(-40)) >> ],
      [ columns |-> { "date", "amount" },
        rows |-> << CsvRow("2025-01-15", Str(<<"z">>), Number(-5)) >> ],
      [ columns |-> { "date", "payee", "amount" },
        rows |-> << CsvRow("not-a-date", Str(<<"z">>), Number(-5)) >> ],
      [ columns |-> { "date", "payee", "amount" },
        rows |-> << CsvRow("2025-01-15", Str(<<"z">>), Number(-5)),
                    CsvRow("2025-02-01", Str(<<"z">>),
                           [ kind |-> "text", text |-> <<"a","b","c">> ]) >> ],
      [ columns |-> { "date", "payee", "amount" },
        rows |-> << CsvRow("2025-02-01", Str(<<"z">>), Number(30)),
                    CsvRow("2025-01-15", Str(<<"B","P">>), Number(-40)) >> ] }

\* the txn dict built from a row, the category taken from the file
CsvTransaction_KeepCategory(row) ==
    LET auto == auto_categorize_transaction(row.payee)
        amount == ToFloat(row.amount)
    IN  IF auto.raised # "none" THEN [ raised |-> auto.raised ]
        ELSE IF amount.raised # "none" THEN [ raised |-> amount.raised ]
        ELSE [ raised |-> "none", date |-> row.date, payee |-> row.payee.text,
               amount |-> amount.value, category |-> row.category ]

\* the txn dict built from a row of the file, or the exception raised
CsvTransaction(row) ==
    LET auto == auto_categorize_transaction(row.payee)
        amount == ToFloat(row.amount)
    IN  IF auto.raised # "none" THEN [ raised |-> auto.raised ]
        ELSE IF amount.raised # "none" THEN [ raised |-> amount.raised ]
        ELSE [ raised |-> "none", date |-> row.date, payee |-> row.payee.text,
               amount |-> amount.value, category |-> auto.category ]

\* rows.append([...]) for each txn, then append_rows(rows)
batch_add_transactions(sheet, user_id, txns, t, fail) ==
    IF fail \in { "open", "write" }
    THEN Outcome(sheet, FALSE, TRUE)
    ELSE Outcome(sheet \o
                     [ k \in DOMAIN txns |->
                         [ user_id |-> user_id,
                           transaction_id |-> Len(sheet) + k,
                           date |-> txns[k].date, payee |-> txns[k].payee,
                           amount |-> txns[k].amount,
                           \* txn.get('category', 'Uncategorized')
                           category |-> IF "category" \in DOMAIN txns[k]
                                        THEN txns[k].category
                                        ELSE "Uncategorized",
                           modified_at |-> t ] ],
                 TRUE, FALSE)

\* a date as a number to order by
DateKey(date) == date.year * 10000 + date.month * 100 + date.day

\* df.sort_values('date', ascending=False): NaT comes last, and rows of one
\* date in an order the sort does not promise
ByDateDescending(rows) ==
    { q \in Orders(DOMAIN rows) :
        \A i \in 1..(Len(q) - 1) :
            \/ rows[q[i + 1]].date = NaT
            \/ /\ rows[q[i]].date # NaT
               /\ DateKey(rows[q[i]].date) >= DateKey(rows[q[i + 1]].date) }

\* the frames a call that misses the cache can return
load_user_transactions(sheet, user_id, fail) ==
    IF fail \in { "open", "read" } \/ sheet = <<>> THEN { EmptyFrame }
    ELSE LET mine == SelectSeq(sheet, LAMBDA r : r.user_id = user_id)
             converted == [ i \in DOMAIN mine |->
                              [ mine[i] EXCEPT !.date = to_datetime(mine[i].date) ] ]
         IN  IF mine = <<>> THEN { UnconvertedFrame }
             ELSE { Frame([ i \in DOMAIN q |-> converted[q[i]] ]) :
                      q \in ByDateDescending(converted) }

\* df.sort_values('priority', ascending=True)
ByPriority(rows) ==
    { q \in Orders(DOMAIN rows) :
        \A i \in 1..(Len(q) - 1) : rows[q[i]].priority <= rows[q[i + 1]].priority }

\* load_user_rules handing the rules over in the order of the sheet
load_user_rules_Unsorted(sheet, user_id, fail) ==
    IF fail \in { "open", "read" } \/ sheet = <<>> THEN { EmptyFrame }
    ELSE { [ columns |-> TRUE, datetime |-> FALSE,
             rows |-> SelectSeq(sheet, LAMBDA r : r.user_id = user_id) ] }

\* the frames a call that misses the cache can return
load_user_rules(sheet, user_id, fail) ==
    IF fail \in { "open", "read" } \/ sheet = <<>> THEN { EmptyFrame }
    ELSE LET mine == SelectSeq(sheet, LAMBDA r : r.user_id = user_id)
         IN  { [ columns |-> TRUE, datetime |-> FALSE,
                 rows |-> [ i \in DOMAIN q |-> mine[q[i]] ] ] :
                 q \in ByPriority(mine) }

add_rule(sheet, user_id, r, t, fail) ==
    IF fail \in { "open", "write" }
    THEN Outcome(sheet, FALSE, TRUE)
    ELSE Outcome(Append(sheet,
                       [ user_id |-> user_id, rule_id |-> Len(sheet) + 1,
                         priority |-> r.priority, rule_field |-> r.rule_field,
                         rule_condition |-> r.rule_condition,
                         rule_value |-> r.rule_value,
                         rule_category |-> r.rule_category, created_at |-> t ]),
                 TRUE, FALSE)

\* apply_rules_to_transactions as a function of its arguments: for each
\* transaction the first rule that applies, if its category is another
RECURSIVE apply_rules_to_transactions(_, _)
apply_rules_to_transactions(txns, rules) ==
    IF txns = <<>> THEN <<>>
    ELSE LET txn == Head(txns)
             matching == { k \in DOMAIN rules : apply_rule(txn, rules[k]) }
             first == rules[FirstOf(matching)]
             rest == apply_rules_to_transactions(Tail(txns), rules)
         IN  IF matching # {} /\ txn.category # first.rule_category
             THEN << <<txn.transaction_id, first.rule_category>> >> \o rest
             ELSE rest

\* a load through st.cache_data: the entry if there is one, whoever stored it
CachedTransactions(user_id) ==
    IF transactions_cache # <<>> THEN { transactions_cache[1] }
    ELSE load_user_transactions(transactions_sheet, user_id, "none")

CachedRules(user_id) ==
    IF rules_cache # <<>> THEN { rules_cache[1] }
    ELSE load_user_rules(rules_sheet, user_id, "none")

SaveCategories == { "Uncategorized", "Shopping" }

\* the rows a sheet is let grow to
MaxSheetRows == 3

\* the user at the transaction pages
PageUsers == { "u1" }

\* the txn dicts of each file, built once
FileTransactions ==
    [ file \in CsvFiles |->
        [ k \in DOMAIN file.rows |-> CsvTransaction(file.rows[k]) ] ]

\* what the rule form can send: the selectboxes offer "payee", "contains"
\* and the names of DEFAULT_CATEGORIES; the value may be left empty
AppRules ==
    { [ priority |-> pr[1], rule_field |-> "payee", rule_condition |-> "contains",
        rule_value |-> <<"b">>, rule_category |-> pr[2] ] :
        pr \in { <<1, "Shopping">>, <<1, "Other">>, <<2, "Other">> } }
    \cup
    { [ priority |-> 999, rule_field |-> "payee", rule_condition |-> "contains",
        rule_value |-> <<>>, rule_category |-> "Uncategorized" ] }

\* who submits which form: the first user any of them, the second one rule
RuleForms ==
    { << "u1", r >> : r \in AppRules } \cup
    { << "u2", [ priority |-> 1, rule_field |-> "payee",
                 rule_condition |-> "contains", rule_value |-> <<"P">>,
                 rule_category |-> "Travel" ] >> }

\* the sheet with its header only, or with a row that an import stored
ImportedSheets ==
    { <<>>,
      << [ user_id |-> "u1", transaction_id |-> 1, date |-> "2025-01-15",
           payee |-> <<"B","P">>, amount |-> -40, category |-> "Gas & Fuel",
           modified_at |-> 0 ] >> }

InitApp ==
    /\ transactions_sheet \in ImportedSheets
    /\ rules_sheet = <<>>
    /\ budget_sheet = <<>>
    /\ rules_cache = <<>>
    /\ transactions_cache = <<>>
    /\ budgets_cache = <<>>
    /\ users_sheet = <<>>
    /\ user_data_sheet = <<>>
    /\ sessions = <<>>
    /\ last_call = NoCall
    /\ last_result = NoCall
    /\ now = 0
    /\ pc = "done"
    /\ MatchIdle
    /\ RulesIdle
    /\ CategorizeIdle
    /\ BudgetIdle
    /\ FnIdle

\* show_transactions_page with a file uploaded and 'Import Transactions'
\* pressed, down to the list of all transactions below the upload
ImportCsv ==
    /\ now < MaxClock
    /\ \E user_id \in PageUsers, file \in CsvFiles :
          LET missing_cols == { "date", "payee", "amount" } \ file.columns
              txns == FileTransactions[file]
              raising == { k \in DOMAIN txns : txns[k].raised # "none" }
              out == batch_add_transactions(transactions_sheet, user_id, txns,
                                            now + 1, "none")
              call == [ op |-> "import_csv", user_id |-> user_id, file |-> file,
                        sheet_before |-> transactions_sheet ]
          IN  /\ Len(transactions_sheet) + Len(file.rows) <= MaxSheetRows
              /\ last_call' = call
              /\ IF missing_cols # {}
                 THEN /\ last_result' = [ reported |-> "Missing required columns" ]
                      /\ transactions_sheet' = transactions_sheet
                      /\ \E df \in CachedTransactions(user_id) :
                            transactions_cache' = << df >>
                 ELSE IF raising # {}
                 THEN \* except Exception as e
                      /\ last_result' = [ reported |-> "Error reading CSV file" ]
                      /\ transactions_sheet' = transactions_sheet
                      /\ \E df \in CachedTransactions(user_id) :
                            transactions_cache' = << df >>
                 ELSE \* success, st.rerun(), and the page loads anew
                      /\ last_result' = [ reported |-> "Successfully imported" ]
                      /\ transactions_sheet' = out.sheet
                      /\ \E df \in load_user_transactions(out.sheet, user_id, "none") :
                            transactions_cache' = << df >>
    /\ now' = now + 1
    /\ UNCHANGED <<budget_sheet, rules_sheet, rules_cache, budgets_cache,
                   accountVars, sessions, outsideStore>>

\* show_categorization_page with 'Save Category' pressed
SaveCategory ==
    /\ now < MaxClock
    /\ \E user_id \in PageUsers, category \in SaveCategories :
        \E df \in CachedTransactions(user_id) :
          LET uncategorized ==
                  SelectSeq(df.rows, LAMBDA t : t.category = "Uncategorized")
              txn == Head(uncategorized)
              out == update_transaction_category(transactions_sheet,
                         txn.transaction_id, category, now + 1, "none")
              call == [ op |-> "save_category", user_id |-> user_id,
                        category |-> category,
                        sheet_before |-> transactions_sheet ]
          IN  /\ last_call' = call
              /\ IF uncategorized = <<>>
                 THEN \* nothing is shown to categorize
                      /\ last_result' = [ reported |-> "No transaction to categorize" ]
                      /\ transactions_sheet' = transactions_sheet
                      /\ transactions_cache' = << df >>
                 ELSE IF txn.date = NaT
                 THEN \* txn['date'].strftime on NaT raises
                      /\ last_result' = [ reported |-> "ValueError" ]
                      /\ transactions_sheet' = transactions_sheet
                      /\ transactions_cache' = << df >>
                 ELSE /\ last_result' =
                            [ reported |-> IF out.ok THEN "Category updated!"
                                           ELSE "Failed to update category" ]
                      /\ transactions_sheet' = out.sheet
                      /\ IF out.ok
                         THEN \E fresh \in load_user_transactions(out.sheet,
                                                user_id, "none") :
                                transactions_cache' = << fresh >>
                         ELSE transactions_cache' = << df >>
    /\ now' = now + 1
    /\ UNCHANGED <<budget_sheet, rules_sheet, rules_cache, budgets_cache,
                   accountVars, sessions, outsideStore>>

\* show_rules_page with the rule form submitted, down to the list of the
\* existing rules
AddRule ==
    /\ now < MaxClock
    /\ Len(rules_sheet) < MaxSheetRows
    /\ \E form \in RuleForms :
          LET user_id == form[1]
              r == form[2]
              out == add_rule(rules_sheet, user_id, r, now + 1, "none")
          IN  IF r.rule_value = <<>>
              THEN \* if not rule_value: st.error("Value is required")
                   /\ rules_sheet' = rules_sheet
                   /\ last_result' = [ reported |-> "Value is required" ]
                   /\ \E rules \in CachedRules(user_id) :
                         /\ rules_cache' = << rules >>
                         /\ last_call' = [ op |-> "add_rule", user_id |-> user_id,
                                            added |-> FALSE, loaded |-> rules ]
              ELSE \* success, st.rerun(), and the page loads the rules anew
                   /\ rules_sheet' = out.sheet
                   /\ last_result' = [ reported |-> "Rule added!" ]
                   /\ \E rules \in load_user_rules(out.sheet, user_id, "none") :
                         /\ rules_cache' = << rules >>
                         /\ last_call' = [ op |-> "add_rule", user_id |-> user_id,
                                            added |-> TRUE, loaded |-> rules ]
    /\ now' = now + 1
    /\ UNCHANGED <<budget_sheet, transactions_sheet, transactions_cache,
                   budgets_cache,
                   accountVars, sessions, outsideStore>>

\* show_rules_page with 'Apply Rules to All Transactions' pressed
ApplyRules ==
    /\ now < MaxClock
    /\ \E user_id \in PageUsers :
        \E rules \in CachedRules(user_id) :
          /\ Len(rules.rows) > 0
          /\ rules_cache' = << rules >>
          /\ \E df \in CachedTransactions(user_id) :
                LET update_list == apply_rules_to_transactions(df.rows, rules.rows)
                    out == batch_update_transaction_categories(
                               transactions_sheet, update_list, now + 1, "none")
                IN  /\ last_call' = [ op |-> "apply_rules", user_id |-> user_id,
                                       rules_df |-> rules.rows,
                                       transactions_df |-> df.rows,
                                       cached |-> transactions_cache # <<>>,
                                       update_list |-> update_list ]
                    /\ IF update_list = <<>>
                       THEN /\ last_result' =
                                  [ reported |-> "No transactions needed rule updates" ]
                            /\ transactions_sheet' = transactions_sheet
                            /\ transactions_cache' = << df >>
                       ELSE /\ last_result' = [ reported |-> "Applied rules" ]
                            /\ transactions_sheet' = out.sheet
                            /\ transactions_cache' = <<>>
    /\ now' = now + 1
    /\ UNCHANGED <<budget_sheet, rules_sheet, budgets_cache,
                   accountVars, sessions, outsideStore>>

\* config.CACHE_TTL seconds after an entry was stored it is dropped
ExpireTransactions ==
    /\ transactions_cache # <<>>
    /\ transactions_cache' = <<>>
    /\ UNCHANGED <<budget_sheet, rules_sheet, transactions_sheet, rules_cache,
                   last_call, last_result, now, budgets_cache,
                   accountVars, sessions, outsideStore>>

ExpireRules ==
    /\ rules_cache # <<>>
    /\ rules_cache' = <<>>
    /\ UNCHANGED <<budget_sheet, rules_sheet, transactions_sheet,
                   transactions_cache, last_call, last_result, now, budgets_cache,
                   accountVars, sessions, outsideStore>>

NextApp ==
    \/ ImportCsv
    \/ SaveCategory
    \/ AddRule
    \/ ApplyRules
    \/ ExpireTransactions
    \/ ExpireRules

SpecApp == InitApp /\ [][NextApp]_vars

(***************************************************************************)
(* C17: what the import does with a file that is not valid                 *)
(***************************************************************************)
IsCalendarDate(cell) == cell \in { "2025-01-15", "2025-02-01" }

InvalidFile(file) ==
    \/ { "date", "payee", "amount" } \ file.columns # {}
    \/ \E k \in DOMAIN file.rows :
          \/ ~IsCalendarDate(file.rows[k].date)
          \/ file.rows[k].amount.kind # "number"

ReportedFailure ==
    last_result \in { [ reported |-> "Missing required columns" ],
                      [ reported |-> "Error reading CSV file" ],
                      [ reported |-> "Failed to import transactions" ] }

\* C17: when the file lacks one of the columns date, payee, amount, or a
\* row has a date that is no calendar date or an amount that is no number,
\* the import reports the failure and persists no row of the file.
C17_InvalidFileNotPersisted ==
    (last_call.op = "import_csv" /\ InvalidFile(last_call.file)) =>
        /\ ReportedFailure
        /\ transactions_sheet = last_call.sheet_before

\* the same without the dates: a missing column or an amount that is no
\* number does stop the import
C17_MissingColumnOrBadAmountNotPersisted ==
    (/\ last_call.op = "import_csv"
     /\ \/ { "date", "payee", "amount" } \ last_call.file.columns # {}
        \/ \E k \in DOMAIN last_call.file.rows :
              last_call.file.rows[k].amount.kind # "number") =>
        /\ ReportedFailure
        /\ transactions_sheet = last_call.sheet_before

(***************************************************************************)
(* C19: the categories of the stored transactions                          *)
(***************************************************************************)
\* C19: after any sequence of CSV imports, 'Save Category', 'Add Rule' and
\* 'Apply Rules', the category of every stored transaction is one of
\* config.DEFAULT_CATEGORIES.
C19_CategoriesAreKnown ==
    \A i \in DOMAIN transactions_sheet :
        \E k \in DOMAIN DEFAULT_CATEGORIES :
            transactions_sheet[i].category = DEFAULT_CATEGORIES[k]

\* a file that names its own category was imported, a rule was added and
\* the rules were applied: the row is stored under the rule's category
C19_Witness ==
    /\ last_call.op = "apply_rules"
    /\ last_call.update_list # <<>>
    /\ \E i \in DOMAIN transactions_sheet :
          /\ transactions_sheet[i].category \in { "Shopping", "Other" }
          /\ transactions_sheet[i].payee = <<"B","P">>

(***************************************************************************)
(* C20: the rules come in the order of their priority                      *)
(***************************************************************************)
RulesOf(user_id) == { i \in DOMAIN rules_sheet : rules_sheet[i].user_id = user_id }

\* C20: after add_rule calls with any priorities load_user_rules(u) returns
\* the rules of u by non-decreasing priority, and in the apply-rules flow
\* the rule that governs a transaction is a matching rule of the smallest
\* priority value.
C20_RulesInPriorityOrder ==
    /\ (last_call.op = "add_rule") => IsSortedByPriority(last_call.loaded.rows)
    /\ (last_call.op = "add_rule" /\ last_call.added) =>
          LET loaded == last_call.loaded.rows
          IN  /\ Len(loaded) = Cardinality(RulesOf(last_call.user_id))
              /\ \A i \in RulesOf(last_call.user_id) :
                    \E k \in DOMAIN loaded : loaded[k] = rules_sheet[i]
    /\ (last_call.op = "apply_rules") =>
          LET rules == last_call.rules_df
              txns == last_call.transactions_df
          IN  /\ IsSortedByPriority(rules)
              /\ \A i \in DOMAIN txns :
                    LET matching == { k \in DOMAIN rules : apply_rule(txns[i], rules[k]) }
                        smallest == { k \in matching :
                                        \A j \in matching :
                                            rules[k].priority <= rules[j].priority }
                        changed == { u \in DOMAIN last_call.update_list :
                                       last_call.update_list[u][1] = txns[i].transaction_id }
                    IN  /\ \A u \in changed :
                              \E k \in smallest :
                                  rules[k].rule_category = last_call.update_list[u][2]
                        /\ (matching # {} /\ changed = {}) =>
                              \E k \in smallest :
                                  rules[k].rule_category = txns[i].category

\* a rule of priority 2 was added before a rule of priority 1 and both match
\* a transaction: applying the rules gives it the category of the second
C20_Witness ==
    /\ last_call.op = "apply_rules"
    /\ Len(last_call.rules_df) = 2
    /\ last_call.rules_df[1].rule_id > last_call.rules_df[2].rule_id
    /\ last_call.rules_df[1].priority < last_call.rules_df[2].priority
    /\ last_call.rules_df[1].rule_category # last_call.rules_df[2].rule_category
    /\ last_call.update_list # <<>>


(***************************************************************************)
(* C21: the category an imported transaction is stored with                *)
(***************************************************************************)
\* the rows the last import appended to the sheet
ImportedRows ==
    SubSeq(transactions_sheet, Len(last_call.sheet_before) + 1,
           Len(transactions_sheet))

\* C21: every transaction persisted by the import whose record in the file
\* supplies no category is stored with auto_categorize_transaction(payee),
\* and one whose record supplies a category is stored with that category.
C21_SuppliedCategoryStored ==
    (last_call.op = "import_csv"
     /\ last_result = [ reported |-> "Successfully imported" ]) =>
        \A k \in DOMAIN last_call.file.rows :
            ImportedRows[k].category =
                IF "category" \in last_call.file.columns
                THEN last_call.file.rows[k].category
                ELSE auto_categorize_transaction(last_call.file.rows[k].payee).category


(***************************************************************************)
(* The write operations of db_manager called one after the other, each     *)
(* with the store answering or refusing one of its calls                   *)
(***************************************************************************)
None == [ kind |-> "None" ]

\* calls made in a row
MaxCalls == 2

\* an add_transaction that makes its append_row once more when it is refused
add_transaction_Retried(sheet, user_id, txn, t, fail) ==
    IF fail = "open"
    THEN Outcome(sheet, FALSE, TRUE)
    ELSE [ Outcome(Append(sheet,
                       [ user_id |-> user_id, transaction_id |-> Len(sheet) + 1,
                         date |-> txn.date, payee |-> txn.payee,
                         amount |-> txn.amount, category |-> txn.category,
                         modified_at |-> t ]),
                   TRUE, FALSE)
             EXCEPT !.rejected = (fail = "write") ]

\* one append_row with the arguments, then the clear() of the cache
add_transaction(sheet, user_id, txn, t, fail) ==
    IF fail \in { "open", "write" }
    THEN Outcome(sheet, FALSE, TRUE)
    ELSE Outcome(Append(sheet,
                     [ user_id |-> user_id, transaction_id |-> Len(sheet) + 1,
                       date |-> txn.date, payee |-> txn.payee,
                       amount |-> txn.amount, category |-> txn.category,
                       modified_at |-> t ]),
                 TRUE, FALSE)

\* the two sheets after the call, the user_id returned or None, and whether
\* the store refused one of the calls
create_user(users, user_data, email, t, fail) ==
    LET emails == { users[i].email : i \in DOMAIN users }
        user_id == [ kind |-> "uuid", n |-> Len(users) + 1 ]
        appended == Append(users, [ user_id |-> user_id, email |-> email,
                                    created_at |-> t ])
    IN  IF fail \in { "open", "read" }
        THEN [ users |-> users, user_data |-> user_data, user_id |-> None,
               rejected |-> TRUE ]
        ELSE IF email \in emails
        THEN \* st.error("Email already exists")
             [ users |-> users, user_data |-> user_data, user_id |-> None,
               rejected |-> FALSE ]
        ELSE IF fail = "write"
        THEN [ users |-> users, user_data |-> user_data, user_id |-> None,
               rejected |-> TRUE ]
        ELSE IF fail = "write2"
        THEN \* the row of Users is appended, the one of User_Data is not
             [ users |-> appended, user_data |-> user_data, user_id |-> None,
               rejected |-> TRUE ]
        ELSE [ users |-> appended,
               user_data |-> Append(user_data, [ user_id |-> user_id ]),
               user_id |-> user_id, rejected |-> FALSE ]

\* what the callers pass
NewTransactions ==
    { [ date |-> "2025-01-15", payee |-> <<"z">>, amount |-> -5,
        category |-> "Uncategorized" ],
      [ date |-> "2025-02-01", payee |-> <<"B","P">>, amount |-> -40,
        category |-> "Gas & Fuel" ] }
\* dicts for batch_add_transactions: with a category, and without one
NewBatches ==
    { << [ date |-> "2025-01-15", payee |-> <<"B","P">>, amount |-> -40,
           category |-> "Shopping" ] >>,
      << [ date |-> "2025-01-15", payee |-> <<"B","P">>, amount |-> -40 ] >> }
NewRules ==
    { [ priority |-> 1, rule_field |-> "payee", rule_condition |-> "contains",
        rule_value |-> <<"b">>, rule_category |-> "Shopping" ] }
Emails == { "a@x", "b@x" }

InitWrites ==
    /\ transactions_sheet \in
           { <<>>, << StoredRow("u1", 1, <<"z">>, "Uncategorized") >> }
    /\ budget_sheet \in
           { <<>>, << BudgetRow("u1", <<"2","0","2","5","-","0","1">>,
                                "Groceries", 100, 0) >> }
    /\ rules_sheet = <<>>
    /\ users_sheet = <<>>
    /\ user_data_sheet = <<>>
    /\ rules_cache = <<>>
    /\ transactions_cache = <<>>
    /\ budgets_cache = <<>>
    /\ sessions = <<>>
    /\ last_call = NoCall
    /\ last_result = NoCall
    /\ now = 0
    /\ pc = "done"
    /\ MatchIdle
    /\ RulesIdle
    /\ CategorizeIdle
    /\ BudgetIdle
    /\ FnIdle

AddTransaction ==
    /\ Len(transactions_sheet) < MaxSheetRows
    /\ \E user_id \in StoreUsers, txn \in NewTransactions, fail \in StoreFailures :
          LET out == add_transaction(transactions_sheet, user_id, txn,
                                     now + 1, fail)
          IN  /\ transactions_sheet' = out.sheet
              /\ transactions_cache' =
                     IF out.cleared THEN <<>> ELSE transactions_cache
              /\ last_result' = [ value |-> out.ok ]
              /\ last_call' = [ op |-> "add_transaction", fail |-> fail,
                                 rejected |-> out.rejected,
                                 sheet_before |-> transactions_sheet ]
    /\ now' = now + 1
    /\ UNCHANGED <<budget_sheet, rules_sheet, rules_cache, budgets_cache,
                   accountVars, sessions, outsideStore>>

BatchAddTransactions ==
    /\ Len(transactions_sheet) < MaxSheetRows
    /\ \E user_id \in StoreUsers, txns \in NewBatches, fail \in StoreFailures :
          LET out == batch_add_transactions(transactions_sheet, user_id, txns,
                                            now + 1, fail)
          IN  /\ transactions_sheet' = out.sheet
              /\ transactions_cache' =
                     IF out.cleared THEN <<>> ELSE transactions_cache
              /\ last_result' = [ value |-> out.ok ]
              /\ last_call' = [ op |-> "batch_add_transactions", fail |-> fail,
                                 rejected |-> out.rejected, txns |-> txns,
                                 sheet_before |-> transactions_sheet ]
    /\ now' = now + 1
    /\ UNCHANGED <<budget_sheet, rules_sheet, rules_cache, budgets_cache,
                   accountVars, sessions, outsideStore>>

AddRuleCall ==
    /\ Len(rules_sheet) < MaxSheetRows
    /\ \E user_id \in StoreUsers, r \in NewRules, fail \in StoreFailures :
          LET out == add_rule(rules_sheet, user_id, r, now + 1, fail)
          IN  /\ rules_sheet' = out.sheet
              /\ rules_cache' = IF out.cleared THEN <<>> ELSE rules_cache
              /\ last_result' = [ value |-> out.ok ]
              /\ last_call' = [ op |-> "add_rule", fail |-> fail,
                                 rejected |-> out.rejected,
                                 sheet_before |-> rules_sheet ]
    /\ now' = now + 1
    /\ UNCHANGED <<budget_sheet, transactions_sheet, transactions_cache,
                   budgets_cache, accountVars, sessions, outsideStore>>

CreateUser ==
    /\ Len(users_sheet) < MaxSheetRows
    /\ \E email \in Emails, fail \in StoreFailures :
          LET out == create_user(users_sheet, user_data_sheet, email,
                                 now + 1, fail)
          IN  /\ users_sheet' = out.users
              /\ user_data_sheet' = out.user_data
              /\ last_result' = [ user_id |-> out.user_id ]
              /\ last_call' = [ op |-> "create_user", fail |-> fail,
                                 rejected |-> out.rejected,
                                 sheet_before |-> users_sheet,
                                 user_data_before |-> user_data_sheet ]
    /\ now' = now + 1
    /\ UNCHANGED <<budget_sheet, rules_sheet, transactions_sheet, rules_cache,
                   transactions_cache, budgets_cache, sessions, outsideStore>>

NextWrites ==
    /\ now < MaxCalls
    /\ \/ AddTransaction
       \/ BatchAddTransactions
       \/ UpdateTransactionCategory
       \/ BatchUpdateTransactionCategories
       \/ AddRuleCall
       \/ SetBudget
       \/ CreateUser

SpecWrites == InitWrites /\ [][NextWrites]_vars

(***************************************************************************)
(* C22: a store that cannot be reached or refuses a call                   *)
(***************************************************************************)
WriteOperations ==
    { "add_transaction", "batch_add_transactions", "update_transaction_category",
      "batch_update_transaction_categories", "add_rule", "set_budget" }

\* the sheet the last call writes to
SheetOfLastCall ==
    IF last_call.op \in { "add_transaction", "batch_add_transactions",
                          "update_transaction_category",
                          "batch_update_transaction_categories" }
    THEN transactions_sheet
    ELSE IF last_call.op = "add_rule" THEN rules_sheet
    ELSE IF last_call.op = "set_budget" THEN budget_sheet
    ELSE users_sheet

\* C22: when the store cannot be reached or refuses a call, each of the six
\* write operations returns False and create_user returns None: a value is
\* returned, no exception, and the refused call is not made a second time,
\* so that a call refused before the first write went through leaves the
\* sheet as it was.
C22_RefusedCallReturnsFalse ==
    (last_call.op \in WriteOperations \cup { "create_user" }
     /\ last_call.rejected) =>
        /\ last_call.op \in WriteOperations => last_result = [ value |-> FALSE ]
        /\ last_call.op = "create_user" => last_result = [ user_id |-> None ]
        /\ last_call.fail # "write2" =>
              SheetOfLastCall = last_call.sheet_before

\* create_user was refused its second append_row: the row of Users is
\* stored and None is returned
C22_Witness ==
    /\ last_call.op = "create_user"
    /\ last_call.rejected
    /\ last_call.fail = "write2"
    /\ Len(users_sheet) = Len(last_call.sheet_before) + 1
    /\ user_data_sheet = last_call.user_data_before


(***************************************************************************)
(* The objects the callers of three functions of utils.py pass in, and     *)
(* what each function writes to                                            *)
(***************************************************************************)
\* x.copy() binds the name on the left to the frame x itself
copy_SameObject(obj, fresh) == obj

\* x.copy() binds the name on the left to a new frame
copy(obj, fresh) == fresh

\* calculate_budget_progress: the frames after `result['spent'] = ...` and
\* the one returned
BudgetProgressObjects(budgets, df) ==
    LET result == copy("budgets_df", "result")
        frames == [ budgets_df |-> budgets, transactions_df |-> df,
                    result |-> budgets ]
    IN  [ frames |-> [ frames EXCEPT
                         ![result] = calculate_budget_progress(budgets, df) ],
          returned |-> result ]

\* get_top_merchants: the frames after `expenses['amount'] = ...`; the
\* selection df[df['amount'] < 0] is a frame of its own
TopMerchantsObjects(df) ==
    LET expenses == copy("selection", "expenses")
        frames == [ df |-> df.rows, selection |-> SelectSeq(df.rows, IsExpense),
                    expenses |-> SelectSeq(df.rows, IsExpense) ]
    IN  [ frames EXCEPT ![expenses] = AbsExpenses(df.rows) ]

InputTransactions ==
    SeqsUpTo([ category : BudgetCategories, amount : { -150, 200 } ],
             MaxMonthTxns)

InitInputs ==
    /\ pc = "call"
    /\ \/ \E budgets \in BudgetTables, df \in InputTransactions :
             fn_args = [ op |-> "calculate_budget_progress",
                         budgets_df |-> budgets, transactions_df |-> df ]
       \/ \E n \in 0..MaxTxns, m \in 0..MaxRules :
             \E txns \in LoopTransactions(n), rules \in LoopRules(m) :
                fn_args = [ op |-> "apply_rules_to_transactions",
                            transactions_df |-> txns, rules_df |-> rules ]
       \/ \E df \in MerchantFrames, n \in MerchantCounts :
             fn_args = [ op |-> "get_top_merchants", df |-> df, n |-> n ]
    /\ fn_result = NoCall
    /\ MatchIdle
    /\ RulesIdle
    /\ CategorizeIdle
    /\ BudgetIdle
    /\ StoreIdle

CallBudgetProgress ==
    /\ pc = "call"
    /\ fn_args.op = "calculate_budget_progress"
    /\ LET after == BudgetProgressObjects(fn_args.budgets_df,
                                          fn_args.transactions_df)
       IN  /\ fn_args' = [ fn_args EXCEPT
                             !.budgets_df = after.frames.budgets_df,
                             !.transactions_df = after.frames.transactions_df ]
           /\ fn_result' = [ raised |-> "none",
                             rows |-> after.frames[after.returned] ]
    /\ pc' = "done"
    /\ UNCHANGED outsideFn

\* the loops read txn and rule and append to the new list `updates`
CallApplyRules ==
    /\ pc = "call"
    /\ fn_args.op = "apply_rules_to_transactions"
    /\ fn_result' = [ raised |-> "none",
                      rows |-> apply_rules_to_transactions(
                                   fn_args.transactions_df, fn_args.rules_df) ]
    /\ fn_args' = fn_args
    /\ pc' = "done"
    /\ UNCHANGED outsideFn

CallTopMerchantsOn ==
    /\ pc = "call"
    /\ fn_args.op = "get_top_merchants"
    /\ \E out \in get_top_merchants(fn_args.df, fn_args.n) :
          /\ fn_result' = out
          /\ pc' = IF out.raised = "none" THEN "done" ELSE "raised"
          /\ fn_args' =
                 IF out.raised = "none"
                 THEN [ fn_args EXCEPT
                          !.df.rows = TopMerchantsObjects(fn_args.df).df ]
                 ELSE fn_args
    /\ UNCHANGED outsideFn

NextInputs ==
    \/ CallBudgetProgress
    \/ CallApplyRules
    \/ CallTopMerchantsOn

SpecInputs == InitInputs /\ [][NextInputs]_vars

(***************************************************************************)
(* C23: the inputs after the call                                          *)
(***************************************************************************)
\* C23: calculate_budget_progress, apply_rules_to_transactions and
\* get_top_merchants leave the collections passed in as they were: the
\* budgets gain no spent value, and what is returned is a new structure.
C23_InputsUnchanged == [][fn_args' = fn_args]_vars

\* the budgets were passed in without a spent value and the frame returned
\* has one that is not zero
C23_Witness ==
    /\ pc = "done"
    /\ fn_args.op = "calculate_budget_progress"
    /\ \E i \in DOMAIN fn_result.rows :
          /\ fn_result.rows[i].spent < 0
          /\ "spent" \notin DOMAIN fn_args.budgets_df[i]


(***************************************************************************)
(* C24: a rule on a field the transaction does not have                    *)
(***************************************************************************)
UnknownField == rule.rule_field \notin { "payee", "amount" }

\* C24: apply_rule returns False for every condition and every rule_value
\* when rule_field names a field the transaction does not have.
C24_UnknownFieldNeverMatches ==
    (pc = "done" /\ UnknownField) => ~applies

\* the same for the rule values that are not empty: these never match
C24_UnknownFieldMatchesEmptyValueOnly ==
    (pc = "done" /\ UnknownField /\ rule.rule_value # <<>>) => ~applies


(***************************************************************************)
(* set_budget running in two sessions: each store call is a step of its    *)
(* own, and the steps of the two sessions interleave                       *)
(***************************************************************************)
Sessions == { "s1", "s2" }

InitSessions ==
    /\ budget_sheet \in InitialBudgetSheets \ { <<>> }
    /\ sessions = [ s \in Sessions |-> [ at |-> "idle" ] ]
    /\ rules_sheet = <<>>
    /\ transactions_sheet = <<>>
    /\ rules_cache = <<>>
    /\ transactions_cache = <<>>
    /\ budgets_cache = <<>>
    /\ users_sheet = <<>>
    /\ user_data_sheet = <<>>
    /\ last_call = NoCall
    /\ last_result = NoCall
    /\ now = 0
    /\ pc = "done"
    /\ MatchIdle
    /\ RulesIdle
    /\ CategorizeIdle
    /\ BudgetIdle
    /\ FnIdle

\* records = budget_sheet.get_all_records(), and `existing` taken from them
ReadExisting(s) ==
    /\ sessions[s].at = "idle"
    /\ \E k \in BudgetKeys, a \in SetAmounts :
          sessions' = [ sessions EXCEPT ![s] =
                          [ at |-> "read", user_id |-> k[1], month_year |-> k[2],
                            category |-> k[3], budgeted |-> a,
                            existing |-> ExistingRows(budget_sheet, k[1], k[2], k[3]) ] ]
    /\ UNCHANGED <<budget_sheet, rules_sheet, transactions_sheet, rules_cache,
                   transactions_cache, budgets_cache, accountVars, last_call,
                   last_result, now, outsideStore>>

\* budget_sheet.update_cell(row_index, 4, budgeted)
UpdateBudgeted(s) ==
    /\ sessions[s].at = "read"
    /\ sessions[s].existing # {}
    /\ budget_sheet' = [ budget_sheet EXCEPT
                           ![FirstOf(sessions[s].existing)].budgeted =
                               sessions[s].budgeted ]
    /\ sessions' = [ sessions EXCEPT ![s].at = "updated" ]
    /\ UNCHANGED <<rules_sheet, transactions_sheet, rules_cache,
                   transactions_cache, budgets_cache, accountVars, last_call,
                   last_result, now, outsideStore>>

\* budget_sheet.update_cell(row_index, 6, last_updated), clear(), return True
UpdateLastUpdated(s) ==
    /\ sessions[s].at = "updated"
    /\ budget_sheet' = [ budget_sheet EXCEPT
                           ![FirstOf(sessions[s].existing)].last_updated = now + 1 ]
    /\ sessions' = [ sessions EXCEPT ![s].at = "returned" ]
    /\ budgets_cache' = <<>>
    /\ now' = now + 1
    /\ UNCHANGED <<rules_sheet, transactions_sheet, rules_cache,
                   transactions_cache, accountVars, last_call, last_result,
                   outsideStore>>

\* budget_sheet.append_row([...]), clear(), return True
AppendBudget(s) ==
    /\ sessions[s].at = "read"
    /\ sessions[s].existing = {}
    /\ budget_sheet' = Append(budget_sheet,
                              BudgetRow(sessions[s].user_id, sessions[s].month_year,
                                        sessions[s].category, sessions[s].budgeted,
                                        now + 1))
    /\ sessions' = [ sessions EXCEPT ![s].at = "returned" ]
    /\ budgets_cache' = <<>>
    /\ now' = now + 1
    /\ UNCHANGED <<rules_sheet, transactions_sheet, rules_cache,
                   transactions_cache, accountVars, last_call, last_result,
                   outsideStore>>

NextSessions ==
    \E s \in Sessions :
        \/ ReadExisting(s)
        \/ UpdateBudgeted(s)
        \/ UpdateLastUpdated(s)
        \/ AppendBudget(s)

SpecSessions == InitSessions /\ [][NextSessions]_vars

(***************************************************************************)
(* C25: two sessions setting the budget of one tuple                       *)
(***************************************************************************)
SameTuple ==
    /\ \A s \in Sessions : sessions[s].at = "returned"
    /\ \A s \in Sessions, r \in Sessions :
          /\ sessions[s].user_id = sessions[r].user_id
          /\ sessions[s].month_year = sessions[r].month_year
          /\ sessions[s].category = sessions[r].category

\* C25: when two sessions run set_budget for the same (user_id, month_year,
\* category) and their reads of the existing rows and their writes
\* interleave, the sheet ends with at most one row for that tuple.
C25_OneRowUnderInterleaving ==
    SameTuple =>
        \A s \in Sessions :
            Cardinality(ExistingRows(budget_sheet, sessions[s].user_id,
                                     sessions[s].month_year,
                                     sessions[s].category)) <= 1

\* when the row of the tuple is there before the two calls, both update it
\* and it stays the only one
C25_OneRowWhenBothUpdate ==
    (SameTuple /\ \A s \in Sessions : sessions[s].existing # {}) =>
        \A s \in Sessions :
            Cardinality(ExistingRows(budget_sheet, sessions[s].user_id,
                                     sessions[s].month_year,
                                     sessions[s].category)) = 1


(***************************************************************************)
(* Loads through st.cache_data by two users, between write operations.     *)
(* A parameter whose name begins with an underscore is left out of the     *)
(* cache key, so load_user_transactions and load_user_rules have one entry *)
(* each and load_user_budgets has one for each month_year.                 *)
(***************************************************************************)
\* the frame a call that misses the cache returns
load_user_budgets(sheet, user_id, month_year, fail) ==
    IF fail \in { "open", "read" } \/ sheet = <<>> THEN EmptyFrame
    ELSE LET mine == SelectSeq(sheet, LAMBDA r : r.user_id = user_id)
         IN  [ columns |-> TRUE, datetime |-> FALSE,
               \* if month_year: of None or a text
               rows |-> IF month_year.kind = "str" /\ month_year.text # <<>>
                        THEN SelectSeq(mine, LAMBDA r :
                                           r.month_year = month_year.text)
                        ELSE mine ]

\* the entries of the cache of load_user_budgets stored under month_year
BudgetEntries(month_year) ==
    { i \in DOMAIN budgets_cache : budgets_cache[i][1] = month_year }

CachedBudgets(user_id, month_year) ==
    IF BudgetEntries(month_year) # {}
    THEN budgets_cache[FirstOf(BudgetEntries(month_year))][2]
    ELSE load_user_budgets(budget_sheet, user_id, month_year, "none")

\* the kind of data an operation or a load is about
KindOf(op) ==
    IF op \in { "add_rule", "load_user_rules" } THEN "rules"
    ELSE IF op \in { "set_budget", "load_user_budgets" } THEN "budgets"
    ELSE "transactions"

\* a behaviour stays with the sheet and the cache of one kind
OnlyKind(kind) == last_call = NoCall \/ KindOf(last_call.op) = kind

LoadMonths == { None, Str(<<"2","0","2","5","-","0","1">>) }

InitLoads ==
    /\ transactions_sheet = << StoredRow("u1", 1, <<"z">>, "Uncategorized"),
                               StoredRow("u2", 2, <<"z">>, "Food & Dining") >>
    /\ rules_sheet = <<>>
    /\ budget_sheet = << BudgetRow("u1", <<"2","0","2","5","-","0","1">>,
                                   "Groceries", 100, 0) >>
    /\ users_sheet = <<>>
    /\ user_data_sheet = <<>>
    /\ rules_cache = <<>>
    /\ transactions_cache = <<>>
    /\ budgets_cache = <<>>
    /\ sessions = <<>>
    /\ last_call = NoCall
    /\ last_result = NoCall
    /\ now = 0
    /\ pc = "done"
    /\ MatchIdle
    /\ RulesIdle
    /\ CategorizeIdle
    /\ BudgetIdle
    /\ FnIdle

LoadUserTransactions ==
    /\ OnlyKind("transactions")
    /\ \E user_id \in StoreUsers :
        \E df \in CachedTransactions(user_id) :
          /\ transactions_cache' = << df >>
          /\ last_call' = [ op |-> "load_user_transactions", user_id |-> user_id,
                             hit |-> transactions_cache # <<>> ]
          /\ last_result' = [ value |-> df ]
    /\ UNCHANGED <<budget_sheet, rules_sheet, transactions_sheet, rules_cache,
                   budgets_cache, accountVars, sessions, now, outsideStore>>

LoadUserRules ==
    /\ OnlyKind("rules")
    /\ \E user_id \in StoreUsers :
        \E df \in CachedRules(user_id) :
          /\ rules_cache' = << df >>
          /\ last_call' = [ op |-> "load_user_rules", user_id |-> user_id,
                             hit |-> rules_cache # <<>> ]
          /\ last_result' = [ value |-> df ]
    /\ UNCHANGED <<budget_sheet, rules_sheet, transactions_sheet,
                   transactions_cache, budgets_cache, accountVars, sessions,
                   now, outsideStore>>

LoadUserBudgets ==
    /\ OnlyKind("budgets")
    /\ \E user_id \in StoreUsers, month_year \in LoadMonths :
          LET df == CachedBudgets(user_id, month_year)
          IN  /\ budgets_cache' =
                     IF BudgetEntries(month_year) # {} THEN budgets_cache
                     ELSE Append(budgets_cache, << month_year, df >>)
              /\ last_call' = [ op |-> "load_user_budgets", user_id |-> user_id,
                                 month_year |-> month_year,
                                 hit |-> BudgetEntries(month_year) # {} ]
              /\ last_result' = [ value |-> df ]
    /\ UNCHANGED <<budget_sheet, rules_sheet, transactions_sheet, rules_cache,
                   transactions_cache, accountVars, sessions, now, outsideStore>>

\* config.CACHE_TTL seconds after its entries were stored a cache is empty
ExpireBudgets ==
    /\ budgets_cache # <<>>
    /\ budgets_cache' = <<>>
    /\ UNCHANGED <<budget_sheet, rules_sheet, transactions_sheet, rules_cache,
                   transactions_cache, last_call, last_result, now,
                   accountVars, sessions, outsideStore>>

NextLoads ==
    \/ /\ now < MaxCalls
       /\ \/ OnlyKind("transactions") /\ UpdateTransactionCategory
          \/ OnlyKind("transactions") /\ BatchAddTransactions
          \/ OnlyKind("rules") /\ AddRuleCall
          \/ OnlyKind("budgets") /\ SetBudget
    \/ LoadUserTransactions
    \/ LoadUserRules
    \/ LoadUserBudgets
    \/ ExpireTransactions
    \/ ExpireRules
    \/ ExpireBudgets

SpecLoads == InitLoads /\ [][NextLoads]_vars

(***************************************************************************)
(* C26: whose rows a load returns                                          *)
(***************************************************************************)
IsLoad ==
    last_call.op \in { "load_user_transactions", "load_user_rules",
                       "load_user_budgets" }

\* C26: for any interleaving of loads by different users within the time
\* to live of the cache, load_user_transactions(u), load_user_rules(u) and
\* load_user_budgets(u, p) return only rows whose user_id equals u.
C26_OnlyOwnRows ==
    IsLoad =>
        \A i \in DOMAIN last_result.value.rows :
            last_result.value.rows[i].user_id = last_call.user_id


\* a load that misses the cache reads the sheet and keeps the rows of u
C26_OwnRowsOnMiss ==
    (IsLoad /\ ~last_call.hit) =>
        \A i \in DOMAIN last_result.value.rows :
            last_result.value.rows[i].user_id = last_call.user_id

(***************************************************************************)
(* C28: what a load returns after the store was changed                    *)
(***************************************************************************)
\* what the load returned is what a load reading the sheets now returns;
\* the user is left open, the entry being stored for whoever loaded first
ReadFromStoreNow ==
    /\ last_call.op = "load_user_transactions" =>
          \E u \in StoreUsers :
              last_result.value \in
                  load_user_transactions(transactions_sheet, u, "none")
    /\ last_call.op = "load_user_rules" =>
          \E u \in StoreUsers :
              last_result.value \in load_user_rules(rules_sheet, u, "none")
    /\ last_call.op = "load_user_budgets" =>
          \E u \in StoreUsers :
              last_result.value =
                  load_user_budgets(budget_sheet, u, last_call.month_year, "none")

\* C28: after an operation that changed the stored transactions, rules or
\* budgets, the next load of that kind returns data read after the change,
\* never a cached result from before it, also when the operation changed
\* the store and then reported failure.
C28_LoadReadsAfterChange == IsLoad => ReadFromStoreNow

\* an operation that returned True has left the cache of its kind empty
C28_SuccessClearsCache ==
    (last_call.op \in WriteOperations /\ last_result = [ value |-> TRUE ]) =>
        /\ KindOf(last_call.op) = "transactions" => transactions_cache = <<>>
        /\ KindOf(last_call.op) = "rules" => rules_cache = <<>>
        /\ KindOf(last_call.op) = "budgets" => budgets_cache = <<>>


(***************************************************************************)
(* 'Apply Rules' pressed between loads and category updates of the same    *)
(* user, with the store answering or refusing the calls of an update       *)
(***************************************************************************)
InitRounds ==
    /\ transactions_sheet = << StoredRow("u1", 1, <<"z">>, "Uncategorized"),
                               StoredRow("u1", 2, <<"z">>, "Shopping") >>
    /\ rules_sheet = << [ user_id |-> "u1", rule_id |-> 1, priority |-> 1,
                          rule_field |-> "payee", rule_condition |-> "contains",
                          rule_value |-> <<"z">>, rule_category |-> "Shopping",
                          created_at |-> 0 ] >>
    /\ budget_sheet = <<>>
    /\ users_sheet = <<>>
    /\ user_data_sheet = <<>>
    /\ rules_cache = <<>>
    /\ transactions_cache = <<>>
    /\ budgets_cache = <<>>
    /\ sessions = <<>>
    /\ last_call = NoCall
    /\ last_result = NoCall
    /\ now = 0
    /\ pc = "done"
    /\ MatchIdle
    /\ RulesIdle
    /\ CategorizeIdle
    /\ BudgetIdle
    /\ FnIdle

NextRounds ==
    \/ LoadUserTransactions
    \/ UpdateTransactionCategory
    \/ ApplyRules
    \/ ExpireTransactions
    \/ ExpireRules

SpecRounds == InitRounds /\ [][NextRounds]_vars

(***************************************************************************)
(* C27: a second round of rule application                                 *)
(***************************************************************************)
\* the updates were written and the cache is cleared, so that the next
\* load_user_transactions reads the sheet
RulesApplied ==
    /\ last_call.op = "apply_rules"
    /\ last_result = [ reported |-> "Applied rules" ]

SecondRoundIsEmpty ==
    \A df \in load_user_transactions(transactions_sheet, last_call.user_id, "none") :
        apply_rules_to_transactions(df.rows, last_call.rules_df) = <<>>

\* C27: after apply_rules_to_transactions is run and all its updates are
\* persisted by batch_update_transaction_categories, running it again on
\* the reloaded transactions with the same rules yields an empty list.
C27_FixedPointInOneRound == RulesApplied => SecondRoundIsEmpty

\* the same when the first round ran on transactions read from the sheet
C27_FixedPointWhenReadFromStore ==
    (RulesApplied /\ ~last_call.cached) => SecondRoundIsEmpty


(***************************************************************************)
(* C29: the store after an operation that returned False                   *)
(***************************************************************************)
TwoCellWrites ==
    last_call.op \in { "update_transaction_category", "set_budget" }

\* C29: whenever update_transaction_category or set_budget returns False,
\* the stored data is as before the call: category and modified_at of the
\* transaction, budgeted and last_updated of the budget row, also when the
\* store fails between the two cell writes of the operation.
C29_FalseLeavesStoreUnchanged ==
    (TwoCellWrites /\ last_result = [ value |-> FALSE ]) =>
        SheetOfLastCall = last_call.sheet_before

\* the same but for a failure between the two cell writes
C29_UnchangedUnlessSecondWriteRefused ==
    (TwoCellWrites /\ last_result = [ value |-> FALSE ]
     /\ ~(last_call.rejected /\ last_call.fail = "write2")) =>
        SheetOfLastCall = last_call.sheet_before

====
